---- MODULE Spec2Model ----
(***************************************************************************)
(* RBAC / multi-tenant authorization, the SuperOwner overlay and the       *)
(* account-activation workflow of construction_expense_tracker (core app). *)
(* Each specification below covers one component; the variables a          *)
(* specification does not use keep their initial value.                    *)
(***************************************************************************)
EXTENDS Integers, FiniteSets, Sequences, TLC

VARIABLES
    roles,        \* Role rows: [id, company, is_admin, is_supervisor, is_team_member]
    perms,        \* Permission rows: [role, resource, action]
    memberships,  \* CompanyMembership rows: [user, company, role, status]
    authCall,     \* the last authorization call and what it returned
    owners,       \* SuperOwner rows: [user, is_primary_owner, delegation_level, caps,
                  \*                   allowed_companies]
    lastPrimarySave, \* history: the user of the last row saved with is_primary_owner set
    saving,       \* the SuperOwner.save calls in progress (concurrent saves)
    requests,     \* AccountActivationRequest rows, by id
    now,          \* timezone.now(), in units of the activation window
    users,        \* User rows (usernames; username is unique)
    profiles,     \* UserProfile rows: [user, is_account_active]
    companies,    \* Company rows (slugs; slug is unique)
    signalsConnected, \* whether core/signals.py is imported by the app config
    outcome,      \* how the last request handler ended
    lastInst,     \* the handler's in-memory AccountActivationRequest when it ended
    approving,    \* the approve_activation_request calls in progress (concurrent approvals)
    deleting,     \* the role_delete requests in progress (concurrent deletions)
    last_company, \* UserProfile.last_company, by user (None when null)
    documents,    \* DocumentUpload rows, by id
    is_active,    \* Company.is_active, by company
    sessions      \* the users holding an authenticated session

authVars == <<roles, perms, memberships, authCall>>

ownerVars == <<owners, lastPrimarySave, saving>>

reqVars == <<requests, now, users, profiles, companies, signalsConnected, outcome, lastInst,
            approving>>

vars == <<roles, perms, memberships, authCall, owners, lastPrimarySave, saving,
          requests, now, users, profiles, companies, signalsConnected, outcome, lastInst,
          approving, deleting, last_company, documents, is_active, sessions>>

siteVars == <<last_company, documents, is_active, sessions>>

\* the tables a specification does not use are empty
SiteUnused ==
    last_company = << >> /\ documents = << >> /\ is_active = << >> /\ sessions = {}

\* a handler that holds no AccountActivationRequest instance
NoInstance ==
    [request_type |-> "-", status |-> "-", approved_by |-> "-", approved_at |-> -1,
     rejection_reason |-> ""]

(***************************************************************************)
(* Permission catalogue and membership statuses (core/models.py)           *)
(***************************************************************************)
RESOURCE_CHOICES ==
    {"projects", "expenses", "contractors", "reports", "users", "company", "billing"}

ACTION_CHOICES == {"view", "create", "edit", "delete", "approve", "export"}

MEMBERSHIP_STATUS_CHOICES == {"active", "invited", "suspended", "left"}

\* a null role foreign key (CompanyMembership.role, null=True)
NoRole == "NoRole"

Users == {"u1", "u2"}

Companies == {"acme", "beta"}

\* the (resource, action) pairs the authorization calls are made with
QueryResources == {"projects", "expenses"}

QueryActions == {"create", "view"}

Perm(role, resource, action) ==
    [role |-> role, resource |-> resource, action |-> action]

AllPermissions(role) ==
    {Perm(role, r, a) : r \in RESOURCE_CHOICES, a \in ACTION_CHOICES}

(***************************************************************************)
(* CompanyMembership.has_permission / is_company_admin / ...               *)
(***************************************************************************)
RoleRow(id) == CHOOSE r \in roles : r.id = id

\* mutant: an admin role is taken to hold every permission
has_permission_admin_implies_all(m, resource, action) ==
    IF m.role = NoRole
    THEN FALSE
    ELSE \/ RoleRow(m.role).is_admin
         \/ \E p \in perms :
                p.role = m.role /\ p.resource = resource /\ p.action = action

has_permission(m, resource, action) ==
    IF m.role = NoRole
    THEN FALSE
    ELSE \E p \in perms :
            p.role = m.role /\ p.resource = resource /\ p.action = action

is_company_admin(m) ==
    m.role # NoRole /\ RoleRow(m.role).is_admin

is_company_supervisor(m) ==
    m.role # NoRole /\ RoleRow(m.role).is_supervisor

is_team_member(m) ==
    m.role # NoRole /\ RoleRow(m.role).is_team_member

(***************************************************************************)
(* middleware.py: user_has_permission, get_user_permissions                *)
(***************************************************************************)
\* mutant: the lookup without its status filter
AnyStatusMembershipLookup(user, company) ==
    {m \in memberships : m.user = user /\ m.company = company}

\* CompanyMembership.objects.get(user=, company=, status='active')
ActiveMembershipLookup(user, company) ==
    {m \in memberships : m.user = user /\ m.company = company /\ m.status = "active"}

\* the outcome of a call: it raised, or it returned value / granted
Returned(value, granted) == [raised |-> FALSE, value |-> value, granted |-> granted]

Raised == [raised |-> TRUE, value |-> FALSE, granted |-> {}]

user_has_permission(user, company, resource, action) ==
    LET found == ActiveMembershipLookup(user, company)
    IN  IF found = {}
        THEN Returned(FALSE, {})                \* CompanyMembership.DoesNotExist
        ELSE IF Cardinality(found) > 1
        THEN Raised                             \* MultipleObjectsReturned
        ELSE Returned(has_permission(CHOOSE m \in found : TRUE, resource, action), {})

\* f"{perm.resource}.{perm.action}"
PermissionString(p) == p.resource \o "." \o p.action

get_user_permissions(user, company) ==
    LET found == ActiveMembershipLookup(user, company)
    IN  IF found = {}
        THEN Returned(FALSE, {})
        ELSE IF Cardinality(found) > 1
        THEN Raised
        ELSE LET m == CHOOSE x \in found : TRUE
             IN  IF m.role = NoRole
                 THEN Returned(FALSE, {})
                 ELSE Returned(FALSE,
                        {PermissionString(p) : p \in {q \in perms : q.role = m.role}})

(***************************************************************************)
(* middleware.py: PermissionMiddleware.process_view.  A request path is    *)
(* the sequence of its segments; every pattern ends with "/", so           *)
(* path.startswith(pattern) is the prefix relation on segments.            *)
(***************************************************************************)
PERMISSION_MAP ==
    { [pattern |-> <<"projects", "create">>, resource |-> "projects", action |-> "create"],
      [pattern |-> <<"projects", "edit">>, resource |-> "projects", action |-> "edit"],
      [pattern |-> <<"projects", "delete">>, resource |-> "projects", action |-> "delete"],
      [pattern |-> <<"expenses", "create">>, resource |-> "expenses", action |-> "create"],
      [pattern |-> <<"expenses", "edit">>, resource |-> "expenses", action |-> "edit"],
      [pattern |-> <<"expenses", "delete">>, resource |-> "expenses", action |-> "delete"],
      [pattern |-> <<"expenses", "approve">>, resource |-> "expenses", action |-> "approve"],
      [pattern |-> <<"contractors", "create">>, resource |-> "contractors", action |-> "create"],
      [pattern |-> <<"contractors", "edit">>, resource |-> "contractors", action |-> "edit"],
      [pattern |-> <<"contractors", "delete">>, resource |-> "contractors", action |-> "delete"],
      [pattern |-> <<"reports">>, resource |-> "reports", action |-> "view"],
      [pattern |-> <<"reports", "export">>, resource |-> "reports", action |-> "export"],
      [pattern |-> <<"company", "manage">>, resource |-> "company", action |-> "edit"],
      [pattern |-> <<"company", "users">>, resource |-> "users", action |-> "view"],
      [pattern |-> <<"company", "billing">>, resource |-> "billing", action |-> "view"] }

admin_only_patterns == { <<"company", "manage">>, <<"company", "users">>, <<"roles">> }

supervisor_patterns == { <<"supervisor">>, <<"executive">> }

startswith(path, pattern) ==
    /\ Len(pattern) <= Len(path)
    /\ \A i \in 1..Len(pattern) : path[i] = pattern[i]

\* TRUE: the view runs (process_view returns None); FALSE: redirect to the dashboard
process_view(membership, path) ==
    /\ \A e \in PERMISSION_MAP :
          startswith(path, e.pattern) => has_permission(membership, e.resource, e.action)
    /\ (\E pt \in admin_only_patterns : startswith(path, pt))
          => is_company_admin(membership)
    /\ (\E pt \in supervisor_patterns : startswith(path, pt))
          => (is_company_supervisor(membership) \/ is_company_admin(membership))

\* the request paths tried
RequestPaths ==
    { <<"projects", "create">>, <<"reports", "export">>, <<"company", "manage">>,
      <<"supervisor">>, <<"dashboard">> }

NoCall ==
    [fn |-> "none", path |-> << >>, user |-> "-", company |-> "-", resource |-> "-", action |-> "-",
     membership |-> [user |-> "-", company |-> "-", role |-> NoRole, status |-> "-"],
     result |-> Returned(FALSE, {})]

CallUserHasPermission(u, c, r, a) ==
    /\ authCall' = [NoCall EXCEPT !.fn = "user_has_permission", !.user = u,
                        !.company = c, !.resource = r, !.action = a,
                        !.result = user_has_permission(u, c, r, a)]
    /\ UNCHANGED <<siteVars, deleting, roles, perms, memberships, ownerVars, reqVars>>

CallGetUserPermissions(u, c) ==
    /\ authCall' = [NoCall EXCEPT !.fn = "get_user_permissions", !.user = u,
                        !.company = c, !.result = get_user_permissions(u, c)]
    /\ UNCHANGED <<siteVars, deleting, roles, perms, memberships, ownerVars, reqVars>>

CallMembershipHasPermission(m, r, a) ==
    /\ authCall' = [NoCall EXCEPT !.fn = "CompanyMembership.has_permission",
                        !.user = m.user, !.company = m.company, !.membership = m,
                        !.resource = r, !.action = a,
                        !.result = Returned(has_permission(m, r, a), {})]
    /\ UNCHANGED <<siteVars, deleting, roles, perms, memberships, ownerVars, reqVars>>

\* request.company_membership is the active membership MultiTenantMiddleware attached
CallProcessView(m, path) ==
    /\ m.status = "active"
    /\ authCall' = [NoCall EXCEPT !.fn = "process_view", !.user = m.user,
                        !.company = m.company, !.membership = m, !.path = path,
                        !.result = Returned(process_view(m, path), {})]
    /\ UNCHANGED <<siteVars, deleting, roles, perms, memberships, ownerVars, reqVars>>

(***************************************************************************)
(* SpecAuth: the authorization calls over the role / permission /          *)
(* membership tables the role form, the invitations and the admin site     *)
(* can produce.                                                            *)
(***************************************************************************)
AcmeRole == "acme/Manager"

BetaRole == "beta/Company Admin"

RoleFlagChoices ==
    [is_admin : BOOLEAN, is_supervisor : BOOLEAN, is_team_member : BOOLEAN]

MkRole(id, company, flags) ==
    [id |-> id, company |-> company, is_admin |-> flags.is_admin,
     is_supervisor |-> flags.is_supervisor, is_team_member |-> flags.is_team_member]

AcmePermChoices ==
    { {},
      {Perm(AcmeRole, "projects", "create")},
      {Perm(AcmeRole, "projects", "create"), Perm(AcmeRole, "expenses", "view")},
      AllPermissions(AcmeRole) }

BetaPermChoices ==
    { {Perm(BetaRole, "expenses", "create")}, AllPermissions(BetaRole) }

Membership(user, company, role, status) ==
    [user |-> user, company |-> company, role |-> role, status |-> status]

\* u1's membership in acme: none, or any role / status combination
U1AcmeChoices ==
    {{}} \cup { {Membership("u1", "acme", r, s)} :
                    r \in {NoRole, AcmeRole}, s \in MEMBERSHIP_STATUS_CHOICES }

U1BetaChoices == { {}, {Membership("u1", "beta", BetaRole, "active")} }

U2AcmeChoices == { {}, {Membership("u2", "acme", AcmeRole, "active")} }

InitAuth ==
    /\ \E f \in RoleFlagChoices :
          roles = { MkRole(AcmeRole, "acme", f),
                    MkRole(BetaRole, "beta",
                           [is_admin |-> TRUE, is_supervisor |-> FALSE,
                            is_team_member |-> FALSE]) }
    /\ \E pa \in AcmePermChoices, pb \in BetaPermChoices : perms = pa \cup pb
    /\ \E a \in U1AcmeChoices, b \in U1BetaChoices, c \in U2AcmeChoices :
          memberships = a \cup b \cup c
    /\ authCall = NoCall
    /\ owners = {} /\ lastPrimarySave = "none" /\ saving = << >>
    /\ requests = << >> /\ now = 0 /\ users = {} /\ profiles = {} /\ companies = {}
    /\ signalsConnected = FALSE /\ outcome = "none" /\ lastInst = NoInstance
    /\ approving = << >> /\ deleting = << >>
    /\ SiteUnused

NextAuth ==
    \/ \E u \in Users, c \in Companies, r \in QueryResources, a \in QueryActions :
          CallUserHasPermission(u, c, r, a)
    \/ \E u \in Users, c \in Companies : CallGetUserPermissions(u, c)
    \/ \E m \in memberships, r \in QueryResources, a \in QueryActions :
          CallMembershipHasPermission(m, r, a)
    \/ \E m \in memberships, path \in RequestPaths : CallProcessView(m, path)

SpecAuth == InitAuth /\ [][NextAuth]_vars

(***************************************************************************)
(* SuperOwner (core/models.py) and the code that saves SuperOwner rows     *)
(***************************************************************************)
DELEGATION_LEVELS ==
    {"full", "company_management", "user_management", "billing_management", "read_only"}

CAPABILITY_FLAGS ==
    {"can_manage_companies", "can_manage_users", "can_activate_accounts",
     "can_access_django_admin", "can_delegate_permissions", "can_manage_billing",
     "can_view_system_analytics"}

OwnerUsers == {"so1", "so2", "so3"}

\* an instance carries the concrete fields; allowed_companies is a many-to-many
\* relation that Model.save does not write
Instance(user, primary, level, caps) ==
    [user |-> user, is_primary_owner |-> primary, delegation_level |-> level, caps |-> caps]

HasRow(rows, user) == \E r \in rows : r.user = user

RowOf(rows, user) == CHOOSE r \in rows : r.user = user

InstanceOf(row) ==
    Instance(row.user, row.is_primary_owner, row.delegation_level, row.caps)

\* mutant: the other rows keep their flag
KeepOtherPrimaries(rows, user) == rows

\* mutant: the demoted rows are also reduced to read-only delegates
ClearOtherPrimariesAndAccess(rows, user) ==
    { IF r.is_primary_owner /\ r.user # user
      THEN [r EXCEPT !.is_primary_owner = FALSE, !.delegation_level = "read_only",
                     !.caps = {"can_view_system_analytics"}]
      ELSE r : r \in rows }

\* SuperOwner.objects.filter(is_primary_owner=True).exclude(pk=self.pk)
\*     .update(is_primary_owner=False)
ClearOtherPrimaries(rows, user) ==
    { IF r.is_primary_owner /\ r.user # user
      THEN [r EXCEPT !.is_primary_owner = FALSE]
      ELSE r : r \in rows }

\* mutant: the capabilities are stored as supplied
PrimaryOwnerGetsAsSupplied(inst) == inst

\* "Primary owner gets all permissions"
PrimaryOwnerGetsAll(inst) ==
    IF inst.is_primary_owner
    THEN [inst EXCEPT !.delegation_level = "full", !.caps = CAPABILITY_FLAGS]
    ELSE inst

\* super().save(): insert the row, or update the concrete fields of the user's row
WriteRow(rows, inst) ==
    LET allowed == IF HasRow(rows, inst.user)
                   THEN RowOf(rows, inst.user).allowed_companies
                   ELSE {}
    IN  {r \in rows : r.user # inst.user} \cup
        { [user |-> inst.user, is_primary_owner |-> inst.is_primary_owner,
           delegation_level |-> inst.delegation_level, caps |-> inst.caps,
           allowed_companies |-> allowed] }

\* SuperOwner.save, run without interleaving
SuperOwner_save(rows, inst) ==
    WriteRow(IF inst.is_primary_owner THEN ClearOtherPrimaries(rows, inst.user) ELSE rows,
             PrimaryOwnerGetsAll(inst))

\* form.save_m2m()
save_m2m(rows, user, allowed) ==
    { IF r.user = user THEN [r EXCEPT !.allowed_companies = allowed] ELSE r : r \in rows }

SavedPrimary(inst) == IF inst.is_primary_owner THEN inst.user ELSE lastPrimarySave

\* SuperOwnerForm.save: the capabilities follow the delegation level
LevelCapabilities(level) ==
    CASE level = "full" -> CAPABILITY_FLAGS
      [] level = "company_management" -> {"can_manage_companies", "can_view_system_analytics"}
      [] level = "user_management" -> {"can_manage_users", "can_activate_accounts"}
      [] level = "billing_management" -> {"can_manage_billing", "can_view_system_analytics"}
      [] level = "read_only" -> {"can_view_system_analytics"}

AllowedChoices == { {}, {"acme"} }

\* super_owner_views.create_super_owner: a delegating super owner grants access to
\* a user who has no SuperOwner row (is_primary_owner is not a form field)
create_super_owner(actor, user, level, allowed) ==
    /\ HasRow(owners, actor)
    /\ "can_delegate_permissions" \in RowOf(owners, actor).caps
    /\ ~HasRow(owners, user)
    /\ LET inst == Instance(user, FALSE, level, LevelCapabilities(level))
       IN  /\ owners' = save_m2m(SuperOwner_save(owners, inst), user, allowed)
           /\ lastPrimarySave' = SavedPrimary(inst)
    /\ UNCHANGED <<siteVars, deleting, authVars, saving, reqVars>>

\* management command create_super_owner: only when no primary owner exists
create_super_owner_command(user) ==
    /\ ~\E r \in owners : r.is_primary_owner
    /\ ~HasRow(owners, user)
    /\ LET inst == Instance(user, TRUE, "full", CAPABILITY_FLAGS)
       IN  /\ owners' = SuperOwner_save(owners, inst)
           /\ lastPrimarySave' = SavedPrimary(inst)
    /\ UNCHANGED <<siteVars, deleting, authVars, saving, reqVars>>

CommandCapChoices == { {}, {"can_activate_accounts", "can_manage_users"} }

\* management command create_superowner (--primary, --full-access or prompted flags)
create_superowner_command(user, is_primary, full_access, asked) ==
    /\ ~HasRow(owners, user)
    /\ LET inst == Instance(user, is_primary,
                            IF full_access THEN "full" ELSE "company_management",
                            IF full_access THEN CAPABILITY_FLAGS ELSE asked)
       IN  /\ owners' = SuperOwner_save(owners, inst)
           /\ lastPrimarySave' = SavedPrimary(inst)
    /\ UNCHANGED <<siteVars, deleting, authVars, saving, reqVars>>

\* management command grant_admin_access: Command.grant_access_to_user
grant_access_to_user(user, create_superowner) ==
    /\ HasRow(owners, user) \/ create_superowner
    /\ LET created == Instance(user, TRUE, "read_only",
                               CAPABILITY_FLAGS \ {"can_manage_billing"})
           rows1 == IF HasRow(owners, user) THEN owners
                    ELSE SuperOwner_save(owners, created)
           \* user.super_owner_profile, then can_access_django_admin = True, then save()
           loaded == InstanceOf(RowOf(rows1, user))
           inst == [loaded EXCEPT !.caps = @ \cup {"can_access_django_admin"}]
       IN  /\ owners' = SuperOwner_save(rows1, inst)
           /\ lastPrimarySave' = SavedPrimary(inst)
    /\ UNCHANGED <<siteVars, deleting, authVars, saving, reqVars>>

AdminLevelChoices == {"read_only", "full"}

AdminCapChoices == { {"can_manage_billing"}, CAPABILITY_FLAGS }

\* SuperOwnerAdmin add / change form: every field is editable
admin_save_model(user, primary, level, caps, allowed) ==
    /\ LET inst == Instance(user, primary, level, caps)
       IN  /\ owners' = save_m2m(SuperOwner_save(owners, inst), user, allowed)
           /\ lastPrimarySave' = SavedPrimary(inst)
    /\ UNCHANGED <<siteVars, deleting, authVars, saving, reqVars>>

\* SuperOwnerAdmin delete
admin_delete(user) ==
    /\ HasRow(owners, user)
    /\ owners' = {r \in owners : r.user # user}
    /\ UNCHANGED <<siteVars, deleting, authVars, lastPrimarySave, saving, reqVars>>

InitOwner ==
    /\ roles = {} /\ perms = {} /\ memberships = {} /\ authCall = NoCall
    /\ owners = {} /\ lastPrimarySave = "none" /\ saving = << >>
    /\ requests = << >> /\ now = 0 /\ users = {} /\ profiles = {} /\ companies = {}
    /\ signalsConnected = FALSE /\ outcome = "none" /\ lastInst = NoInstance
    /\ approving = << >> /\ deleting = << >>
    /\ SiteUnused

NextOwner ==
    \/ \E actor \in OwnerUsers, u \in OwnerUsers, l \in DELEGATION_LEVELS, al \in AllowedChoices :
          create_super_owner(actor, u, l, al)
    \/ \E u \in OwnerUsers : create_super_owner_command(u)
    \/ \E u \in OwnerUsers, p \in BOOLEAN, f \in BOOLEAN, asked \in CommandCapChoices :
          create_superowner_command(u, p, f, asked)
    \/ \E u \in OwnerUsers, c \in BOOLEAN : grant_access_to_user(u, c)
    \/ \E u \in OwnerUsers, p \in BOOLEAN, l \in AdminLevelChoices, c \in AdminCapChoices,
          al \in AllowedChoices : admin_save_model(u, p, l, c, al)
    \/ \E u \in OwnerUsers : admin_delete(u)

SpecOwner == InitOwner /\ [][NextOwner]_vars

(***************************************************************************)
(* SpecOwnerConc: two SuperOwner.save calls run concurrently.  save() is   *)
(* two database statements (the UPDATE of the other rows, then the write   *)
(* of the own row) with no transaction or lock around them.                *)
(***************************************************************************)
SaveProcs == {"p1", "p2"}

SaveUser(p) == IF p = "p1" THEN "so1" ELSE "so2"

\* lines 47-48: the UPDATE that clears the flag on the other rows
SaveClear(p) ==
    /\ saving[p].pc = "start"
    /\ owners' = IF saving[p].inst.is_primary_owner
                 THEN ClearOtherPrimaries(owners, saving[p].inst.user)
                 ELSE owners
    /\ saving' = [saving EXCEPT ![p].pc = "cleared"]
    /\ UNCHANGED <<siteVars, deleting, authVars, lastPrimarySave, reqVars>>

\* lines 51-61: the capabilities are forced in memory, then the row is written
SaveWrite(p) ==
    /\ saving[p].pc = "cleared"
    /\ owners' = WriteRow(owners, PrimaryOwnerGetsAll(saving[p].inst))
    /\ lastPrimarySave' = SavedPrimary(saving[p].inst)
    /\ saving' = [saving EXCEPT ![p].pc = "done"]
    /\ UNCHANGED <<siteVars, deleting, authVars, reqVars>>

ExistingRowChoices(user) ==
    { {},
      {[user |-> user, is_primary_owner |-> FALSE, delegation_level |-> "read_only",
        caps |-> LevelCapabilities("read_only"), allowed_companies |-> {}]},
      {[user |-> user, is_primary_owner |-> FALSE, delegation_level |-> "full",
        caps |-> CAPABILITY_FLAGS, allowed_companies |-> {"acme"}]} }

PrimaryRowChoices(user) ==
    { {},
      {[user |-> user, is_primary_owner |-> TRUE, delegation_level |-> "full",
        caps |-> CAPABILITY_FLAGS, allowed_companies |-> {}]} }

InitOwnerConc ==
    /\ roles = {} /\ perms = {} /\ memberships = {} /\ authCall = NoCall
    /\ \E a \in ExistingRowChoices("so1"), b \in ExistingRowChoices("so2"),
          c \in PrimaryRowChoices("so3") : owners = a \cup b \cup c
    /\ lastPrimarySave = IF HasRow(owners, "so3") THEN "so3" ELSE "none"
    /\ \E l1 \in AdminLevelChoices, c1 \in AdminCapChoices,
          l2 \in AdminLevelChoices, c2 \in AdminCapChoices :
          saving = [p \in SaveProcs |->
                      [pc |-> "start",
                       inst |-> Instance(SaveUser(p), TRUE,
                                         IF p = "p1" THEN l1 ELSE l2,
                                         IF p = "p1" THEN c1 ELSE c2)]]
    /\ requests = << >> /\ now = 0 /\ users = {} /\ profiles = {} /\ companies = {}
    /\ signalsConnected = FALSE /\ outcome = "none" /\ lastInst = NoInstance
    /\ approving = << >> /\ deleting = << >>
    /\ SiteUnused

NextOwnerConc ==
    \/ \E p \in SaveProcs : SaveClear(p)
    \/ \E p \in SaveProcs : SaveWrite(p)

SpecOwnerConc == InitOwnerConc /\ [][NextOwnerConc]_vars

(***************************************************************************)
(* SuperOwner company scope (core/models.py)                               *)
(***************************************************************************)
\* mutant: the allowed_companies list is not consulted
can_manage_company_unrestricted(row, company) ==
    "can_manage_companies" \in row.caps

\* SuperOwner.can_manage_company
can_manage_company(row, company) ==
    IF "can_manage_companies" \notin row.caps THEN FALSE
    ELSE IF row.allowed_companies # {} THEN company \in row.allowed_companies
    ELSE TRUE

\* SuperOwner.get_manageable_companies (Company.objects.all() is Companies)
get_manageable_companies(row) ==
    IF "can_manage_companies" \notin row.caps THEN {}
    ELSE IF row.allowed_companies # {} THEN row.allowed_companies
    ELSE Companies

CallCanManageCompany(u, c) ==
    /\ HasRow(owners, u)
    /\ authCall' = [NoCall EXCEPT !.fn = "can_manage_company", !.user = u, !.company = c,
                      !.result = Returned(can_manage_company(RowOf(owners, u), c), {})]
    /\ UNCHANGED <<siteVars, deleting, roles, perms, memberships, ownerVars, reqVars>>

CallGetManageableCompanies(u) ==
    /\ HasRow(owners, u)
    /\ authCall' = [NoCall EXCEPT !.fn = "get_manageable_companies", !.user = u,
                      !.result = Returned(TRUE, get_manageable_companies(RowOf(owners, u)))]
    /\ UNCHANGED <<siteVars, deleting, roles, perms, memberships, ownerVars, reqVars>>

\* the capability sets of the rows whose scope is queried
ScopeCapChoices ==
    { {}, {"can_manage_companies"}, {"can_manage_users", "can_activate_accounts"},
      CAPABILITY_FLAGS }

ScopeRow(user, caps, allowed) ==
    [user |-> user, is_primary_owner |-> FALSE, delegation_level |-> "company_management",
     caps |-> caps, allowed_companies |-> allowed]

InitScope ==
    /\ roles = {} /\ perms = {} /\ memberships = {} /\ authCall = NoCall
    /\ \E c1 \in ScopeCapChoices, c2 \in ScopeCapChoices,
          a1 \in SUBSET Companies, a2 \in SUBSET Companies :
          owners = {ScopeRow("so1", c1, a1), ScopeRow("so2", c2, a2)}
    /\ lastPrimarySave = "none" /\ saving = << >>
    /\ requests = << >> /\ now = 0 /\ users = {} /\ profiles = {} /\ companies = {}
    /\ signalsConnected = FALSE /\ outcome = "none" /\ lastInst = NoInstance
    /\ approving = << >> /\ deleting = << >>
    /\ SiteUnused

NextScope ==
    \/ \E u \in OwnerUsers, c \in Companies : CallCanManageCompany(u, c)
    \/ \E u \in OwnerUsers : CallGetManageableCompanies(u)

SpecScope == InitScope /\ [][NextScope]_vars

(***************************************************************************)
(* Account activation requests (core/models.py, core/views.py,             *)
(* core/super_owner_views.py, core/backup_views.py,                        *)
(* core/registration_workflow.py)                                          *)
(***************************************************************************)
REQUEST_TYPES ==
    {"company_registration", "individual_registration", "user_invitation", "user_registration"}

STATUS_CHOICES ==
    {"pending", "documents_required", "under_review", "approved", "rejected", "expired"}

ReqIds == {"q1"}

\* the requester's e-mail address, and the usernames the registration form may carry
RequestEmail == "alice@x.io"

UsernameChoices == {"alice", RequestEmail}

\* "Beta" is also the name of a company that exists already
CompanyNameChoices == {"Acme Ltd", "Acme, Ltd.", "Beta"}

\* the company an invitation points to
TargetCompany == "beta"

None == "None"

\* django.utils.text.slugify on the company names in use
slugify(name) ==
    CASE name = "Acme Ltd" -> "acme-ltd"
      [] name = "Acme, Ltd." -> "acme-ltd"
      [] name = "Beta" -> "beta"

\* company_name.lower().replace(' ', '-') on the company names in use
lower_replace(name) ==
    CASE name = "Acme Ltd" -> "acme-ltd"
      [] name = "Acme, Ltd." -> "acme,-ltd."
      [] name = "Beta" -> "beta"

\* the clock advances up to MaxNow; a request is created at 0 and its
\* expires_at lies one activation window later
MaxNow == 2

ExpiresAt == 1

NewRequest(type, username, company_name) ==
    [request_type |-> type, status |-> "pending", username |-> username,
     company_name |-> company_name, approved_by |-> None, approved_at |-> -1,
     rejection_reason |-> ""]

is_expired == now > ExpiresAt

\* the tables a handler writes
DB ==
    [requests |-> requests, users |-> users, profiles |-> profiles, companies |-> companies,
     roles |-> roles, perms |-> perms, memberships |-> memberships]

\* no transition method has been entered
NoMethod == [fn |-> "none", req |-> "-"]

\* a handler in progress: the tables, its in-memory request, the exception raised
\* and the transition method it has entered
Ctx(db, inst, err) == [db |-> db, inst |-> inst, err |-> err, called |-> NoMethod]

\* the handler enters a transition method for request q
Enter(c, fn, q) == [c EXCEPT !.called = [fn |-> fn, req |-> q]]

Ok(c) == c.err = "none"

Raise(c, err) == [c EXCEPT !.err = err]

\* self.save(): every field of the in-memory instance is written to its row
save(c, q) == [c EXCEPT !.db.requests[q] = c.inst]

\* the messages of the ValidationErrors the transition methods raise
OnlyPendingCanBeApproved == "Only pending requests can be approved"

RequestHasExpired == "Request has expired"

OnlyPendingOrReviewCanBeRejected == "Only pending or under review requests can be rejected"

OnlyPendingCanBeMarked == "Only pending requests can be marked under review"

OnlyPendingOrReviewCanRequire == "Only pending or under review requests can require documents"

\* the failures that report an illegal transition
IllegalTransitionErrors ==
    {OnlyPendingCanBeApproved, OnlyPendingOrReviewCanBeRejected, OnlyPendingCanBeMarked,
     OnlyPendingOrReviewCanRequire}

\* mutant: approve without the expiry branch
approve_ignoring_expiry(c, q, approved_by_user) ==
    IF ~Ok(c) THEN c
    ELSE IF c.inst.status # "pending"
         THEN Raise(Enter(c, "approve", q), OnlyPendingCanBeApproved)
    ELSE save([Enter(c, "approve", q) EXCEPT !.inst.status = "approved",
                        !.inst.approved_by = approved_by_user,
                        !.inst.approved_at = now], q)

\* mutant: approve is also accepted from under_review and documents_required
approve_from_review(c, q, approved_by_user) ==
    IF ~Ok(c) THEN c
    ELSE IF c.inst.status \notin {"pending", "under_review", "documents_required"}
         THEN Raise(Enter(c, "approve", q), OnlyPendingCanBeApproved)
    ELSE IF is_expired
         THEN Raise(save([Enter(c, "approve", q) EXCEPT !.inst.status = "expired"], q),
                    RequestHasExpired)
    ELSE save([Enter(c, "approve", q) EXCEPT !.inst.status = "approved",
                        !.inst.approved_by = approved_by_user,
                        !.inst.approved_at = now], q)

\* AccountActivationRequest.approve
approve(c, q, approved_by_user) ==
    IF ~Ok(c) THEN c
    ELSE IF c.inst.status # "pending"
         THEN Raise(Enter(c, "approve", q), OnlyPendingCanBeApproved)
    ELSE IF is_expired
         THEN Raise(save([Enter(c, "approve", q) EXCEPT !.inst.status = "expired"], q),
                    RequestHasExpired)
    ELSE save([Enter(c, "approve", q) EXCEPT !.inst.status = "approved",
                        !.inst.approved_by = approved_by_user,
                        !.inst.approved_at = now], q)

\* mutant: reject without the status check
reject_unguarded(c, q, rejected_by_user, reason) ==
    IF ~Ok(c) THEN c
    ELSE save([Enter(c, "reject", q) EXCEPT !.inst.status = "rejected",
                        !.inst.approved_by = rejected_by_user,
                        !.inst.approved_at = now,
                        !.inst.rejection_reason = reason], q)

\* AccountActivationRequest.reject
reject(c, q, rejected_by_user, reason) ==
    IF ~Ok(c) THEN c
    ELSE IF c.inst.status \notin {"pending", "under_review", "documents_required"}
         THEN Raise(Enter(c, "reject", q), OnlyPendingOrReviewCanBeRejected)
    ELSE save([Enter(c, "reject", q) EXCEPT !.inst.status = "rejected",
                        !.inst.approved_by = rejected_by_user,
                        !.inst.approved_at = now,
                        !.inst.rejection_reason = reason], q)

\* AccountActivationRequest.mark_under_review
mark_under_review(c, q, reviewer_user) ==
    IF ~Ok(c) THEN c
    ELSE IF c.inst.status # "pending" THEN Raise(Enter(c, "mark_under_review", q), OnlyPendingCanBeMarked)
    ELSE save([Enter(c, "mark_under_review", q) EXCEPT !.inst.status = "under_review",
                        !.inst.approved_by = reviewer_user], q)

\* AccountActivationRequest.require_documents
require_documents(c, q, reviewer_user, reason) ==
    IF ~Ok(c) THEN c
    ELSE IF c.inst.status \notin {"pending", "under_review"}
         THEN Raise(Enter(c, "require_documents", q), OnlyPendingOrReviewCanRequire)
    ELSE save([Enter(c, "require_documents", q) EXCEPT !.inst.status = "documents_required",
                        !.inst.approved_by = reviewer_user,
                        !.inst.rejection_reason = reason], q)

Profile(user, active) == [user |-> user, is_account_active |-> active]

HasProfile(db, user) == \E p \in db.profiles : p.user = user

\* signals.create_user_profile: UserProfile.objects.create(user=instance), when connected
create_user_profile(db, user) ==
    IF signalsConnected
    THEN [db EXCEPT !.profiles = @ \cup {Profile(user, FALSE)}]
    ELSE db

\* User.objects.create_user: username is unique
create_user(c, username) ==
    IF ~Ok(c) THEN c
    ELSE IF username \in c.db.users THEN Raise(c, "IntegrityError")
    ELSE [c EXCEPT !.db = create_user_profile([c.db EXCEPT !.users = @ \cup {username}],
                                              username)]

\* UserProfile.objects.create(user=..., is_account_active=True): user is one-to-one
UserProfile_create(c, user) ==
    IF ~Ok(c) THEN c
    ELSE IF HasProfile(c.db, user) THEN Raise(c, "IntegrityError")
    ELSE [c EXCEPT !.db.profiles = @ \cup {Profile(user, TRUE)}]

\* UserProfile.objects.get_or_create(user=..., defaults={'is_account_active': True, ...})
UserProfile_get_or_create(c, user) ==
    IF ~Ok(c) THEN c
    ELSE IF HasProfile(c.db, user) THEN c
    ELSE [c EXCEPT !.db.profiles = @ \cup {Profile(user, TRUE)}]

\* Company.objects.create: slug is unique
Company_create(c, slug) ==
    IF ~Ok(c) THEN c
    ELSE IF slug \in c.db.companies THEN Raise(c, "IntegrityError")
    ELSE [c EXCEPT !.db.companies = @ \cup {slug}]

RoleId(company, name) == company \o "/" \o name

\* Role.objects.create: (company, name) is unique
Role_create(c, company, name, flags) ==
    IF ~Ok(c) THEN c
    ELSE IF \E r \in c.db.roles : r.id = RoleId(company, name) THEN Raise(c, "IntegrityError")
    ELSE [c EXCEPT !.db.roles = @ \cup {MkRole(RoleId(company, name), company, flags)}]

\* CompanyMembership.objects.create: (user, company) is unique
CompanyMembership_create(c, user, company, role) ==
    IF ~Ok(c) THEN c
    ELSE IF \E m \in c.db.memberships : m.user = user /\ m.company = company
         THEN Raise(c, "IntegrityError")
    ELSE [c EXCEPT !.db.memberships = @ \cup {Membership(user, company, role, "active")}]

\* send_mail(..., fail_silently=False): raises when delivery fails
send_mail(c, mail_ok) ==
    IF ~Ok(c) THEN c
    ELSE IF mail_ok THEN c ELSE Raise(c, "SMTPException")

AdminFlags == [is_admin |-> TRUE, is_supervisor |-> FALSE, is_team_member |-> FALSE]

SupervisorFlags == [is_admin |-> FALSE, is_supervisor |-> TRUE, is_team_member |-> FALSE]

EmployeeFlags == [is_admin |-> FALSE, is_supervisor |-> FALSE, is_team_member |-> FALSE]

\* Permission.objects.bulk_create
bulk_create(c, rows) ==
    IF ~Ok(c) THEN c ELSE [c EXCEPT !.db.perms = @ \cup rows]

\* transaction.atomic(): an exception leaving the block undoes its writes; the
\* in-memory instance keeps what was assigned to it
atomic(c0, c) == IF Ok(c) THEN c ELSE [c EXCEPT !.db = c0.db]

\* get_object_or_404(AccountActivationRequest, id=request_id)
Load(q) == Ctx(DB, requests[q], "none")

\* views._create_default_company_setup
create_default_company_setup(c, company, admin_user) ==
    CompanyMembership_create(Role_create(c, company, "Company Admin", AdminFlags),
                             admin_user, company, RoleId(company, "Company Admin"))

\* views._process_approval
process_approval(c, q, approver, mail_ok) ==
    LET a == approve(c, q, approver)
        username == c.inst.username
        slug == slugify(c.inst.company_name)
    IN  CASE c.inst.request_type = "company_registration" ->
               send_mail(create_default_company_setup(
                             UserProfile_create(create_user(Company_create(a, slug), username),
                                                username),
                             slug, username), mail_ok)
          [] c.inst.request_type = "individual_registration" ->
               send_mail(UserProfile_create(create_user(a, username), username), mail_ok)
          [] OTHER -> a

\* RegistrationRequestHandler._add_basic_permissions
add_basic_permissions(c, supervisor_role, employee_role) ==
    bulk_create(
        bulk_create(c, {Perm(supervisor_role, r, a) :
                           r \in RESOURCE_CHOICES, a \in {"view", "export"}}),
        {Perm(employee_role, r, a) :
            r \in {"projects", "expenses", "contractors"}, a \in {"view", "create", "edit"}})

\* RegistrationRequestHandler._create_company_default_roles
create_company_default_roles(c, company, admin_user) ==
    LET r1 == Role_create(c, company, "Company Admin", AdminFlags)
        r2 == Role_create(r1, company, "Supervisor", SupervisorFlags)
        r3 == Role_create(r2, company, "Employee", EmployeeFlags)
        p1 == bulk_create(r3, {Perm(RoleId(company, "Company Admin"), r, a) :
                                  r \in RESOURCE_CHOICES, a \in ACTION_CHOICES})
        p2 == add_basic_permissions(p1, RoleId(company, "Supervisor"),
                                    RoleId(company, "Employee"))
    IN  CompanyMembership_create(p2, admin_user, company, RoleId(company, "Company Admin"))

\* RegistrationRequestHandler._create_company_and_admin
create_company_and_admin(c) ==
    LET username == c.inst.username
        slug == slugify(c.inst.company_name)
    IN  create_company_default_roles(
            Company_create(UserProfile_create(create_user(c, username), username), slug),
            slug, username)

\* RegistrationRequestHandler._create_individual_user
create_individual_user(c) ==
    UserProfile_create(create_user(c, c.inst.username), c.inst.username)

\* RegistrationRequestHandler.approve_request (its mail is sent with fail_silently=True)
approve_request(c, q, approved_by) ==
    LET s == save([Enter(c, "approve_request", q) EXCEPT !.inst.status = "approved",
                            !.inst.approved_by = approved_by,
                            !.inst.approved_at = now], q)
    IN  atomic(c, CASE c.inst.request_type = "company_registration" ->
                            create_company_and_admin(s)
                    [] c.inst.request_type = "individual_registration" ->
                            create_individual_user(s)
                    [] OTHER -> s)

\* RegistrationRequestHandler.reject_request
reject_request(c, q, rejected_by, reason) ==
    save([Enter(c, "reject_request", q) EXCEPT !.inst.status = "rejected",
                   !.inst.approved_by = rejected_by,
                   !.inst.approved_at = now,
                   !.inst.rejection_reason = reason], q)

\* RegistrationRequestHandler.request_additional_documents
request_additional_documents(c, q, reviewed_by, message) ==
    save([Enter(c, "request_additional_documents", q) EXCEPT !.inst.status = "documents_required",
                   !.inst.approved_by = reviewed_by,
                   !.inst.rejection_reason = message], q)

\* the response of a handler: the tables as it leaves them and how it ended
Respond(c) ==
    /\ requests' = c.db.requests
    /\ users' = c.db.users
    /\ profiles' = c.db.profiles
    /\ companies' = c.db.companies
    /\ roles' = c.db.roles
    /\ perms' = c.db.perms
    /\ memberships' = c.db.memberships
    /\ outcome' = IF Ok(c) THEN "ok" ELSE c.err
    /\ lastInst' = c.inst
    /\ authCall' = [NoCall EXCEPT !.fn = c.called.fn, !.path = <<c.called.req>>]
    /\ UNCHANGED <<siteVars, deleting, now, signalsConnected, ownerVars, approving>>

\* @user_passes_test failed, or 'Permission denied'
Denied ==
    /\ outcome' = "denied"
    /\ lastInst' = NoInstance
    /\ authCall' = NoCall
    /\ UNCHANGED <<siteVars, deleting, requests, users, profiles, companies, roles, perms, memberships,
                   now, signalsConnected, ownerVars, approving>>

\* views.is_super_owner / super_owner_views.is_super_owner
is_super_owner(user) == HasRow(owners, user)

\* super_owner_views.can_activate_accounts
can_activate_accounts(user) ==
    HasRow(owners, user) /\ "can_activate_accounts" \in RowOf(owners, user).caps

\* the text a reviewer may type as notes / rejection reason
ReasonChoices == {"", "incomplete"}

\* core/views.activation_request_detail (POST)
views_activation_request_detail(actor, q, action, notes, mail_ok) ==
    IF ~is_super_owner(actor) THEN Denied
    ELSE CASE action = "approve" ->
                Respond(atomic(Load(q), process_approval(Load(q), q, actor, mail_ok)))
           [] action = "reject" ->
                Respond(send_mail(reject(Load(q), q, actor, notes), mail_ok))
           [] action = "require_documents" ->
                Respond(send_mail(require_documents(Load(q), q, actor, notes), mail_ok))
           [] action = "mark_review" ->
                Respond(mark_under_review(Load(q), q, actor))

\* core/super_owner_views.activation_request_detail (POST)
super_owner_activation_request_detail(actor, q, action, rejection_reason) ==
    IF ~can_activate_accounts(actor) THEN Denied
    ELSE CASE action = "approve" -> Respond(approve(Load(q), q, actor))
           [] action = "reject" -> Respond(reject(Load(q), q, actor, rejection_reason))

\* core/super_owner_views.approve_activation_request: no transaction, every
\* statement commits on its own
approve_activation_request(actor, q, mail_ok) ==
    IF ~can_activate_accounts(actor) THEN Denied
    ELSE LET c == Load(q)
             a == approve(c, q, actor)
             slug == lower_replace(c.inst.company_name)
             u == create_user(a, RequestEmail)
             p == UserProfile_get_or_create(u, RequestEmail)
         IN  CASE c.inst.request_type = "company_registration" ->
                    Respond(send_mail(
                        CompanyMembership_create(
                            Role_create(Company_create(p, slug), slug, "Company Admin",
                                        AdminFlags),
                            RequestEmail, slug, RoleId(slug, "Company Admin")),
                        mail_ok))
               [] c.inst.request_type = "user_invitation" ->
                    Respond(send_mail(
                        CompanyMembership_create(p, RequestEmail, TargetCompany, NoRole),
                        mail_ok))
               [] OTHER ->
                    \* send_activation_approved_email(activation_request, user): user is unbound
                    Respond(IF Ok(a) THEN Raise(a, "UnboundLocalError") ELSE a)

\* core/super_owner_views.reject_activation_request
reject_activation_request(actor, q, rejection_reason, mail_ok) ==
    IF ~can_activate_accounts(actor) THEN Denied
    ELSE Respond(send_mail(reject(Load(q), q, actor, rejection_reason), mail_ok))

\* core/super_owner_views.bulk_action_requests with request_ids = [q]
bulk_action_requests(actor, q, action) ==
    IF ~is_super_owner(actor) THEN Denied
    ELSE LET c == Enter(Load(q), "bulk_action_requests", q) IN
         CASE action = "approve" /\ c.inst.status = "pending" ->
                Respond(save([c EXCEPT !.inst.status = "approved",
                                       !.inst.approved_by = actor,
                                       !.inst.approved_at = now], q))
           [] action = "reject" /\ c.inst.status \in {"pending", "under_review"} ->
                Respond(save([c EXCEPT !.inst.status = "rejected",
                                       !.inst.approved_by = actor,
                                       !.inst.approved_at = now], q))
           [] action = "review" /\ c.inst.status = "pending" ->
                Respond(save([c EXCEPT !.inst.status = "under_review"], q))
           [] OTHER -> Respond(c)

\* core/backup_views.process_registration_request
process_registration_request(actor, q, action, reason) ==
    IF ~can_activate_accounts(actor) THEN Denied
    ELSE CASE action = "approve" -> Respond(approve_request(Load(q), q, actor))
           [] action = "reject" -> Respond(reject_request(Load(q), q, actor, reason))
           [] action = "request_docs" ->
                Respond(request_additional_documents(Load(q), q, actor, reason))

\* core/backup_views.bulk_process_requests with request_ids = [q]: an exception
\* of one request is collected in 'errors' and the response is a success
bulk_process_requests(actor, q, action, reason) ==
    IF ~can_activate_accounts(actor) THEN Denied
    ELSE LET c == Load(q) IN
         CASE action = "approve" /\ c.inst.status = "pending" ->
                Respond(approve_request(c, q, actor))
           [] action = "reject" /\ c.inst.status \in {"pending", "under_review"} ->
                Respond(reject_request(c, q, actor, reason))
           [] action = "request_docs" /\ c.inst.status \in {"pending", "under_review"} ->
                Respond(request_additional_documents(c, q, actor, reason))
           [] OTHER -> Respond(c)

\* time passes
Tick ==
    /\ now < MaxNow
    /\ now' = now + 1
    /\ UNCHANGED <<siteVars, deleting, requests, users, profiles, companies, roles, perms, memberships,
                   signalsConnected, outcome, lastInst, authCall, ownerVars,
                   approving>>

\* the reviewers: the primary owner, and a read-only delegate without can_activate_accounts
Reviewers == {"so1", "so2"}

ReviewerRows ==
    { [user |-> "so1", is_primary_owner |-> TRUE, delegation_level |-> "full",
       caps |-> CAPABILITY_FLAGS, allowed_companies |-> {}],
      [user |-> "so2", is_primary_owner |-> FALSE, delegation_level |-> "read_only",
       caps |-> {"can_view_system_analytics"}, allowed_companies |-> {}] }

InitReq ==
    /\ requests \in [ReqIds -> {NewRequest(t, u, n) : t \in REQUEST_TYPES,
                                   u \in UsernameChoices, n \in CompanyNameChoices}]
    /\ now = 0
    /\ users = Reviewers
    /\ profiles = {Profile(u, TRUE) : u \in Reviewers}
    /\ companies = {TargetCompany}
    /\ roles = {} /\ perms = {} /\ memberships = {}
    /\ signalsConnected \in BOOLEAN
    /\ outcome = "none" /\ lastInst = NoInstance
    /\ authCall = NoCall
    /\ owners = ReviewerRows /\ lastPrimarySave = "so1" /\ saving = << >>
    /\ approving = << >> /\ deleting = << >>
    /\ SiteUnused

NextReq ==
    \/ \E actor \in Reviewers, q \in ReqIds,
          action \in {"approve", "reject", "require_documents", "mark_review"},
          notes \in ReasonChoices, mail_ok \in BOOLEAN :
          views_activation_request_detail(actor, q, action, notes, mail_ok)
    \/ \E actor \in Reviewers, q \in ReqIds, action \in {"approve", "reject"},
          reason \in ReasonChoices :
          super_owner_activation_request_detail(actor, q, action, reason)
    \/ \E actor \in Reviewers, q \in ReqIds, mail_ok \in BOOLEAN :
          approve_activation_request(actor, q, mail_ok)
    \/ \E actor \in Reviewers, q \in ReqIds, reason \in ReasonChoices, mail_ok \in BOOLEAN :
          reject_activation_request(actor, q, reason, mail_ok)
    \/ \E actor \in Reviewers, q \in ReqIds, action \in {"approve", "reject", "review"} :
          bulk_action_requests(actor, q, action)
    \/ \E actor \in Reviewers, q \in ReqIds, action \in {"approve", "reject", "request_docs"},
          reason \in ReasonChoices :
          process_registration_request(actor, q, action, reason)
    \/ \E actor \in Reviewers, q \in ReqIds, action \in {"approve", "reject", "request_docs"},
          reason \in ReasonChoices :
          bulk_process_requests(actor, q, action, reason)
    \/ Tick

SpecReq == InitReq /\ [][NextReq]_vars

(***************************************************************************)
(* Two approve_activation_request calls on the same request, interleaved   *)
(* statement by statement (core/super_owner_views.py; no transaction, no   *)
(* row lock)                                                               *)
(***************************************************************************)
ApproveProcs == {"a1", "a2"}

ApproveActor(p) == IF p = "a1" THEN "so1" ELSE "so3"

\* a delegate who holds can_activate_accounts
ActivatingDelegateRow ==
    [user |-> "so3", is_primary_owner |-> FALSE, delegation_level |-> "user_management",
     caps |-> {"can_activate_accounts", "can_manage_users"}, allowed_companies |-> {}]

\* the call's view of the tables, with the instance it loaded
ConcCtx(p) == Ctx(DB, approving[p].inst, "none")

\* one statement of a call: its writes are committed at once; an exception ends
\* the call in the except clause
ConcStep(p, c, next) ==
    /\ requests' = c.db.requests
    /\ users' = c.db.users
    /\ profiles' = c.db.profiles
    /\ companies' = c.db.companies
    /\ roles' = c.db.roles
    /\ perms' = c.db.perms
    /\ memberships' = c.db.memberships
    /\ approving' = [approving EXCEPT ![p] =
                        [pc |-> IF Ok(c) THEN next ELSE "done", inst |-> c.inst, err |-> c.err]]
    /\ UNCHANGED <<siteVars, deleting, now, signalsConnected, outcome, lastInst, authCall, ownerVars>>

\* activation_request = get_object_or_404(AccountActivationRequest, id=request_id)
ConcLoad(p, q) ==
    /\ approving[p].pc = "start"
    /\ can_activate_accounts(ApproveActor(p))
    /\ ConcStep(p, Load(q), "approve")

\* activation_request.approve(request.user)
ConcApprove(p, q) ==
    /\ approving[p].pc = "approve"
    /\ LET a == approve(ConcCtx(p), q, ApproveActor(p))
       IN  IF approving[p].inst.request_type \in {"company_registration", "user_invitation"}
           THEN ConcStep(p, a, "create_user")
           ELSE ConcStep(p, IF Ok(a) THEN Raise(a, "UnboundLocalError") ELSE a, "done")

\* User.objects.create_user(username=activation_request.email, ...)
ConcCreateUser(p) ==
    /\ approving[p].pc = "create_user"
    /\ ConcStep(p, create_user(ConcCtx(p), RequestEmail), "profile")

\* UserProfile.objects.get_or_create(user=user, defaults=...)
ConcProfile(p) ==
    /\ approving[p].pc = "profile"
    /\ ConcStep(p, UserProfile_get_or_create(ConcCtx(p), RequestEmail),
                IF approving[p].inst.request_type = "company_registration"
                THEN "company" ELSE "membership")

\* Company.objects.create(...)
ConcCompany(p) ==
    /\ approving[p].pc = "company"
    /\ ConcStep(p, Company_create(ConcCtx(p), lower_replace(approving[p].inst.company_name)),
                "role")

\* Role.objects.create(company=company, name='Company Admin', is_admin=True)
ConcRole(p) ==
    /\ approving[p].pc = "role"
    /\ ConcStep(p, Role_create(ConcCtx(p), lower_replace(approving[p].inst.company_name),
                               "Company Admin", AdminFlags),
                "membership")

\* CompanyMembership.objects.create(...)
ConcMembership(p) ==
    /\ approving[p].pc = "membership"
    /\ LET slug == lower_replace(approving[p].inst.company_name)
       IN  IF approving[p].inst.request_type = "company_registration"
           THEN ConcStep(p, CompanyMembership_create(ConcCtx(p), RequestEmail, slug,
                                                     RoleId(slug, "Company Admin")), "mail")
           ELSE ConcStep(p, CompanyMembership_create(ConcCtx(p), RequestEmail, TargetCompany,
                                                     NoRole), "mail")

\* send_activation_approved_email(activation_request, user)
ConcMail(p, mail_ok) ==
    /\ approving[p].pc = "mail"
    /\ ConcStep(p, send_mail(ConcCtx(p), mail_ok), "done")

InitApproveConc ==
    /\ requests \in [ReqIds -> {NewRequest(t, u, n) : t \in REQUEST_TYPES,
                                   u \in UsernameChoices, n \in CompanyNameChoices}]
    /\ now = 0
    /\ users = Reviewers \cup {"so3"}
    /\ profiles = {Profile(u, TRUE) : u \in Reviewers \cup {"so3"}}
    /\ companies = {TargetCompany}
    /\ roles = {} /\ perms = {} /\ memberships = {}
    /\ signalsConnected \in BOOLEAN
    /\ outcome = "none" /\ lastInst = NoInstance
    /\ authCall = NoCall
    /\ owners = ReviewerRows \cup {ActivatingDelegateRow}
    /\ lastPrimarySave = "so1" /\ saving = << >>
    /\ approving = [p \in ApproveProcs |-> [pc |-> "start", inst |-> NoInstance, err |-> "none"]]
    /\ SiteUnused
    /\ deleting = << >>

NextApproveConc ==
    \/ \E p \in ApproveProcs, q \in ReqIds : ConcLoad(p, q)
    \/ \E p \in ApproveProcs, q \in ReqIds : ConcApprove(p, q)
    \/ \E p \in ApproveProcs : ConcCreateUser(p)
    \/ \E p \in ApproveProcs : ConcProfile(p)
    \/ \E p \in ApproveProcs : ConcCompany(p)
    \/ \E p \in ApproveProcs : ConcRole(p)
    \/ \E p \in ApproveProcs : ConcMembership(p)
    \/ \E p \in ApproveProcs, mail_ok \in BOOLEAN : ConcMail(p, mail_ok)

SpecApproveConc == InitApproveConc /\ [][NextApproveConc]_vars

(***************************************************************************)
(* Role management (core/views.py: role_create, role_edit, role_delete;    *)
(* core/forms.py: RoleForm.save)                                           *)
(***************************************************************************)
\* the company get_current_company(request) resolves to for these requests
CurrentCompany == "acme"

RoleNames == {"Company Admin", "Owner", "Employee"}

\* the role ids the requests name: the company's own and one of another company
RoleIds ==
    {RoleId(CurrentCompany, n) : n \in RoleNames} \cup {RoleId("beta", "Company Admin")}

HttpMethods == {"GET", "POST"}

\* the flag combinations the role form is submitted with
RoleFormFlagChoices == {AdminFlags, EmployeeFlags}

\* the permission boxes the role form is submitted with
RoleFormPermChoices == { {}, {<<"projects", "create">>} }

\* how a role view ended, with the tables it leaves behind
RoleEnd(result, rs, ps, ms) == [result |-> result, roles |-> rs, perms |-> ps, memberships |-> ms]

RoleUntouched(result) == RoleEnd(result, roles, perms, memberships)

\* the admin check of the three role views: CompanyMembership.objects.get(user,
\* company) followed by is_company_admin()
RoleGate(actor) ==
    LET ms == {m \in memberships : m.user = actor /\ m.company = CurrentCompany}
    IN  IF ms = {} THEN "DoesNotExist"
        ELSE IF ~is_company_admin(CHOOSE m \in ms : TRUE) THEN "Access denied"
        ELSE "pass"

\* get_object_or_404(Role, id=role_id, company=current_company)
RoleFound(rid) == \E r \in roles : r.id = rid /\ r.company = CurrentCompany

\* RoleForm.save on a bound, valid form
RoleForm_save(rid, company, flags, boxes) ==
    RoleEnd("saved",
            {r \in roles : r.id # rid} \cup {MkRole(rid, company, flags)},
            {p \in perms : p.role # rid} \cup {Perm(rid, b[1], b[2]) : b \in boxes},
            memberships)

views_role_create(actor, method, name, flags, boxes) ==
    IF RoleGate(actor) # "pass" THEN RoleUntouched(RoleGate(actor))
    ELSE IF method # "POST" THEN RoleUntouched("form")
    ELSE IF \E r \in roles : r.id = RoleId(CurrentCompany, name)
         THEN RoleUntouched("IntegrityError")
    ELSE RoleForm_save(RoleId(CurrentCompany, name), CurrentCompany, flags, boxes)

views_role_edit(actor, rid, method, flags, boxes) ==
    IF RoleGate(actor) # "pass" THEN RoleUntouched(RoleGate(actor))
    ELSE IF ~RoleFound(rid) THEN RoleUntouched("Http404")
    ELSE IF method # "POST" THEN RoleUntouched("form")
    ELSE RoleForm_save(rid, CurrentCompany, flags, boxes)

\* members_with_role: the active memberships of the company that hold the role
members_with_role(rid) ==
    Cardinality({m \in memberships :
                    m.company = CurrentCompany /\ m.role = rid /\ m.status = "active"})

\* current_company.roles.filter(is_admin=True).count()
admin_role_count(company) ==
    Cardinality({r \in roles : r.company = company /\ r.is_admin})

\* mutant: the memberships holding the role are deleted with it
Role_delete_with_members(rid) ==
    RoleEnd("deleted",
            {r \in roles : r.id # rid},
            {p \in perms : p.role # rid},
            {m \in memberships : m.role # rid})

\* role.delete(): Permission.role cascades, CompanyMembership.role is SET_NULL
Role_delete(rid) ==
    RoleEnd("deleted",
            {r \in roles : r.id # rid},
            {p \in perms : p.role # rid},
            {IF m.role = rid THEN [m EXCEPT !.role = NoRole] ELSE m : m \in memberships})

\* mutant: the members_with_role check is left out
views_role_delete_unguarded(actor, rid, method) ==
    IF RoleGate(actor) # "pass" THEN RoleUntouched(RoleGate(actor))
    ELSE IF ~RoleFound(rid) THEN RoleUntouched("Http404")
    ELSE IF RoleRow(rid).is_admin /\ admin_role_count(CurrentCompany) <= 1
         THEN RoleUntouched("Cannot delete the last admin role")
    ELSE IF method = "POST" THEN Role_delete(rid)
    ELSE RoleUntouched("confirm")

views_role_delete(actor, rid, method) ==
    IF RoleGate(actor) # "pass" THEN RoleUntouched(RoleGate(actor))
    ELSE IF ~RoleFound(rid) THEN RoleUntouched("Http404")
    ELSE IF members_with_role(rid) > 0 THEN RoleUntouched("Cannot delete role in use")
    ELSE IF RoleRow(rid).is_admin /\ admin_role_count(CurrentCompany) <= 1
         THEN RoleUntouched("Cannot delete the last admin role")
    ELSE IF method = "POST" THEN Role_delete(rid)
    ELSE RoleUntouched("confirm")

\* the response of a role view: the tables it wrote, and what was asked of it
RoleRespond(fn, rid, method, e) ==
    /\ roles' = e.roles
    /\ perms' = e.perms
    /\ memberships' = e.memberships
    /\ outcome' = e.result
    /\ authCall' = [NoCall EXCEPT !.fn = fn, !.path = <<rid, method>>]
    /\ UNCHANGED <<siteVars, deleting, ownerVars, requests, now, users, profiles, companies,
                   signalsConnected, lastInst, approving>>

role_create(actor, method, name, flags, boxes) ==
    RoleRespond("role_create", RoleId(CurrentCompany, name), method,
                views_role_create(actor, method, name, flags, boxes))

role_edit(actor, rid, method, flags, boxes) ==
    RoleRespond("role_edit", rid, method,
                views_role_edit(actor, rid, method, flags, boxes))

role_delete(actor, rid, method) ==
    RoleRespond("role_delete", rid, method, views_role_delete(actor, rid, method))

(***************************************************************************)
(* SpecRole: the role views on a company that was set up with its default  *)
(* roles, where an owner role may have been added.                         *)
(***************************************************************************)
RoleActorStatuses == {"active", "suspended"}

RoleMemberStatuses == {"active", "invited"}

InitRoleTables ==
    /\ \E extra \in SUBSET {MkRole(RoleId(CurrentCompany, "Owner"), CurrentCompany, AdminFlags)} :
          roles = { MkRole(RoleId(CurrentCompany, "Company Admin"), CurrentCompany, AdminFlags),
                    MkRole(RoleId(CurrentCompany, "Employee"), CurrentCompany, EmployeeFlags),
                    MkRole(RoleId("beta", "Company Admin"), "beta", AdminFlags) }
                  \cup extra
    /\ perms = {Perm(r.id, "projects", "create") : r \in roles}
    /\ \E s1 \in RoleActorStatuses :
       \E m2 \in {{}} \cup { {Membership("u2", CurrentCompany, r, s)} :
                              r \in {NoRole} \cup {x.id : x \in {y \in roles : y.company = CurrentCompany}},
                              s \in RoleMemberStatuses } :
          memberships = {Membership("u1", CurrentCompany,
                                    RoleId(CurrentCompany, "Company Admin"), s1)} \cup m2
    /\ authCall = NoCall
    /\ owners = {} /\ lastPrimarySave = "none" /\ saving = << >>
    /\ requests = << >> /\ now = 0 /\ users = {} /\ profiles = {} /\ companies = {}
    /\ signalsConnected = FALSE /\ outcome = "none" /\ lastInst = NoInstance
    /\ approving = << >>
    /\ SiteUnused

InitRole == InitRoleTables /\ deleting = << >>

NextRole ==
    \/ \E actor \in Users, method \in HttpMethods, name \in RoleNames,
          flags \in RoleFormFlagChoices, boxes \in RoleFormPermChoices :
          role_create(actor, method, name, flags, boxes)
    \/ \E actor \in Users, rid \in RoleIds, method \in HttpMethods,
          flags \in RoleFormFlagChoices, boxes \in RoleFormPermChoices :
          role_edit(actor, rid, method, flags, boxes)
    \/ \E actor \in Users, rid \in RoleIds, method \in HttpMethods :
          role_delete(actor, rid, method)

SpecRole == InitRole /\ [][NextRole]_vars

(***************************************************************************)
(* SpecRoleConc: role_create and role_edit as above, and two role_delete   *)
(* POST requests served concurrently.  A role_delete runs its checks in    *)
(* queries of their own and deletes in a later statement, outside any      *)
(* transaction, so another request can run between the two.                *)
(***************************************************************************)
DeleteProcs == {"d1", "d2"}

DeleteStart == [pc |-> "start", role |-> "-"]

\* the administrator whose requests are interleaved
ConcActors == {"u1"}

\* role_delete up to its last check: the membership, the role, members_with_role
\* and the admin role count are read
ConcDeleteCheck(p, actor, rid) ==
    /\ deleting[p].pc = "start"
    /\ LET checked == views_role_delete(actor, rid, "GET").result
       IN  deleting' = [deleting EXCEPT ![p] =
                           [pc |-> IF checked = "confirm" THEN "delete" ELSE "done",
                            role |-> rid]]
    /\ UNCHANGED <<siteVars, authVars, ownerVars, reqVars>>

\* role_delete from request.method == 'POST' on: role.delete()
ConcDeleteCommit(p) ==
    /\ deleting[p].pc = "delete"
    /\ LET e == Role_delete(deleting[p].role)
       IN  /\ roles' = e.roles
           /\ perms' = e.perms
           /\ memberships' = e.memberships
           /\ deleting' = [deleting EXCEPT ![p].pc = "done"]
    /\ UNCHANGED <<siteVars, authCall, ownerVars, reqVars>>

\* the administrator is the company's only member
InitRoleConc ==
    /\ InitRoleTables
    /\ \A m \in memberships : m.user \in ConcActors
    /\ deleting = [p \in DeleteProcs |-> DeleteStart]

NextRoleConc ==
    \/ \E actor \in ConcActors, name \in RoleNames, flags \in RoleFormFlagChoices :
          role_create(actor, "POST", name, flags, {})
    \/ \E actor \in ConcActors, rid \in RoleIds, flags \in RoleFormFlagChoices :
          role_edit(actor, rid, "POST", flags, {})
    \/ \E p \in DeleteProcs, actor \in ConcActors, rid \in RoleIds :
          ConcDeleteCheck(p, actor, rid)
    \/ \E p \in DeleteProcs : ConcDeleteCommit(p)

SpecRoleConc == InitRoleConc /\ [][NextRoleConc]_vars

(***************************************************************************)
(* Company context of a request (core/middleware.py: MultiTenantMiddleware;*)
(* core/views.py: get_current_company, switch_company and the admin check  *)
(* of the company administration views)                                    *)
(***************************************************************************)
\* a request attribute that was not set
Unset == "unset"

\* request.company_membership when the attribute was not set
NoMembership == Membership("-", "-", NoRole, "-")

exempt_urls ==
    { <<"admin">>, <<"auth">>, <<"static">>, <<"media">>, <<"company", "register">>,
      <<"company", "switch">>, <<"invitation">>, <<"super-owner">> }

\* hasattr(request.user, 'userprofile')
HasUserProfile(user) == \E p \in profiles : p.user = user

ActiveMembershipsOf(user) ==
    {m \in memberships : m.user = user /\ m.status = "active"}

\* CompanyMembership.objects.filter(user=..., status='active').first(): the
\* ordering is -created_at; a user's beta membership is the later one
FirstActiveCompany(user) ==
    IF ActiveMembershipsOf(user) = {} THEN None
    ELSE IF \E m \in ActiveMembershipsOf(user) : m.company = "beta" THEN "beta"
    ELSE (CHOOSE m \in ActiveMembershipsOf(user) : TRUE).company

\* MultiTenantMiddleware.get_current_company
MultiTenantMiddleware_get_current_company(user) ==
    IF /\ HasUserProfile(user) /\ last_company[user] # None
       /\ \E m \in ActiveMembershipsOf(user) : m.company = last_company[user]
    THEN last_company[user]
    ELSE FirstActiveCompany(user)

\* what process_request leaves on the request
Passed == [redirect |-> FALSE, current_company |-> Unset, company_membership |-> NoMembership]

Redirected == [redirect |-> TRUE, current_company |-> Unset, company_membership |-> NoMembership]

\* process_request from 'Get or set current company' on
set_company_context(user, path) ==
    LET current_company == MultiTenantMiddleware_get_current_company(user)
        ms == {m \in ActiveMembershipsOf(user) : m.company = current_company}
    IN  IF current_company = None /\ path \notin {<<"dashboard">>, << >>} THEN Redirected
        ELSE IF current_company = None THEN [Passed EXCEPT !.current_company = None]
        ELSE IF ms = {} THEN [Redirected EXCEPT !.current_company = current_company]
        ELSE [Passed EXCEPT !.current_company = current_company,
                            !.company_membership = CHOOSE m \in ms : TRUE]

\* mutant: super owners are given a company context like everyone else
process_request_for_everyone(user, path) ==
    IF \E url \in exempt_urls : startswith(path, url) THEN Passed
    ELSE set_company_context(user, path)

\* MultiTenantMiddleware.process_request for an authenticated user
process_request(user, path) ==
    IF \E url \in exempt_urls : startswith(path, url) THEN Passed
    ELSE IF HasUserProfile(user) /\ is_super_owner(user) THEN Passed
    ELSE set_company_context(user, path)

\* views.get_current_company
views_get_current_company(user) ==
    IF HasUserProfile(user) /\ last_company[user] # None
    THEN last_company[user]
    ELSE FirstActiveCompany(user)

\* the company administration views, with their request paths
AdminViews ==
    { [fn |-> "company_management", path |-> <<"company", "manage">>],
      [fn |-> "role_create", path |-> <<"roles", "create">>],
      [fn |-> "role_edit", path |-> <<"roles", "edit">>],
      [fn |-> "role_delete", path |-> <<"roles", "delete">>],
      [fn |-> "invite_user", path |-> <<"users", "invite">>],
      [fn |-> "company_settings_view", path |-> <<"company", "settings">>],
      [fn |-> "user_management_view", path |-> <<"users", "manage">>] }

\* the membership the view's admin check loads:
\* CompanyMembership.objects.get(user=request.user, company=current_company)
GateMemberships(user) ==
    {m \in memberships : m.user = user /\ m.company = views_get_current_company(user)}

\* the head of every company administration view, up to its admin check
admin_gate(user, fn) ==
    IF views_get_current_company(user) = None THEN "No company selected"
    ELSE IF GateMemberships(user) = {} THEN "DoesNotExist"
    ELSE LET membership == CHOOSE m \in GateMemberships(user) : TRUE
         IN  IF is_company_admin(membership) THEN "pass"
             ELSE IF fn = "invite_user" /\ is_company_supervisor(membership) THEN "pass"
             ELSE "Access denied"

\* a request to a company administration view; the two middlewares run before
\* the view when the settings install them
AdminViewRequest(user, v, installed) ==
    LET r == IF installed THEN process_request(user, v.path) ELSE Passed
        checked == r.company_membership # NoMembership
        end == IF r.redirect THEN "redirect"
               ELSE IF checked /\ ~process_view(r.company_membership, v.path) THEN "denied"
               ELSE admin_gate(user, v.fn)
    IN  /\ user \in sessions
        /\ outcome' = end
        /\ authCall' = [NoCall EXCEPT !.fn = v.fn, !.user = user, !.path = v.path,
                            !.company = views_get_current_company(user),
                            !.result = [installed |-> installed, role_checked |-> checked]]
        /\ UNCHANGED <<roles, perms, memberships, siteVars, deleting, ownerVars, requests,
                       now, users, profiles, companies, signalsConnected, lastInst, approving>>

\* the paths process_request is called with
TenantPaths ==
    { <<"dashboard">>, <<"projects", "create">>, <<"roles", "create">>, <<"super-owner">> }

CallProcessRequest(user, path) ==
    /\ user \in sessions
    /\ outcome' = "none"
    /\ authCall' = [NoCall EXCEPT !.fn = "process_request", !.user = user, !.path = path,
                        !.result = process_request(user, path)]
    /\ UNCHANGED <<roles, perms, memberships, siteVars, deleting, ownerVars, requests,
                   now, users, profiles, companies, signalsConnected, lastInst, approving>>

\* views.switch_company
switch_company(user, company) ==
    /\ user \in sessions
    /\ IF \E m \in ActiveMembershipsOf(user) : m.company = company
       THEN /\ last_company' = [last_company EXCEPT ![user] = company]
            /\ profiles' = IF HasUserProfile(user) THEN profiles
                           ELSE profiles \cup {Profile(user, FALSE)}
            /\ outcome' = "switched"
       ELSE /\ UNCHANGED <<last_company, profiles>>
            /\ outcome' = "You do not have access to this company"
    /\ authCall' = [NoCall EXCEPT !.fn = "switch_company", !.user = user, !.company = company]
    /\ UNCHANGED <<roles, perms, memberships, documents, is_active, sessions, deleting,
                   ownerVars, requests, now, users, companies, signalsConnected, lastInst,
                   approving>>

\* the rows that go with a company: roles, memberships and SuperOwner
\* allowed_companies links are on_delete CASCADE, permissions cascade from their
\* role, a membership's role is SET_NULL
CompanyCascade(company) ==
    LET gone == {r.id : r \in {x \in roles : x.company = company}}
    IN  /\ companies' = companies \ {company}
        /\ is_active' = [c \in DOMAIN is_active \ {company} |-> is_active[c]]
        /\ roles' = {r \in roles : r.company # company}
        /\ perms' = {p \in perms : p.role \notin gone}
        /\ memberships' =
              { IF m.role \in gone THEN [m EXCEPT !.role = NoRole] ELSE m :
                    m \in {x \in memberships : x.company # company} }
        /\ owners' = {[r EXCEPT !.allowed_companies = @ \ {company}] : r \in owners}
        /\ authCall' = [NoCall EXCEPT !.fn = "Company.delete", !.company = company,
                            !.result = {u \in DOMAIN last_company :
                                           last_company[u] = company}]
        /\ outcome' = "deleted"
        /\ UNCHANGED <<documents, sessions, deleting, lastPrimarySave, saving, requests, now,
                       users, profiles, signalsConnected, lastInst, approving>>

\* mutant: UserProfile.last_company keeps pointing at the deleted company
Company_delete_keeping_last_company(company) ==
    /\ company \in companies
    /\ CompanyCascade(company)
    /\ UNCHANGED last_company

\* company.delete() (CompanyAdmin; create_test_users cleanup):
\* UserProfile.last_company is SET_NULL
Company_delete(company) ==
    /\ company \in companies
    /\ CompanyCascade(company)
    /\ last_company' = [u \in DOMAIN last_company |->
                            IF last_company[u] = company THEN None ELSE last_company[u]]

(***************************************************************************)
(* SpecTenant: one logged-in user with any memberships in two companies,   *)
(* who may be a SuperOwner.  A user who logged in has a UserProfile        *)
(* (login_view and CompanyRegistrationForm.save get or create it).         *)
(***************************************************************************)
TenantUser == "u1"

TenantRoles ==
    { MkRole(RoleId(c, "Company Admin"), c, AdminFlags) : c \in Companies } \cup
    { MkRole(RoleId(c, "Employee"), c, EmployeeFlags) : c \in Companies }

TenantMembershipChoices(c, statuses) ==
    {{}} \cup { {Membership(TenantUser, c, r.id, s)} :
                  r \in {x \in TenantRoles : x.company = c}, s \in statuses }

InitTenant ==
    /\ roles = TenantRoles
    /\ perms = UNION {AllPermissions(r.id) : r \in {x \in TenantRoles : x.is_admin}}
    /\ \E a \in TenantMembershipChoices("acme", MEMBERSHIP_STATUS_CHOICES),
          b \in TenantMembershipChoices("beta", {"active", "suspended"}) :
          memberships = a \cup b
    /\ \E so \in SUBSET {ScopeRow(TenantUser, {"can_manage_users"}, {})} : owners = so
    /\ users = {TenantUser}
    /\ profiles = {Profile(TenantUser, TRUE)}
    /\ \E c \in Companies \cup {None} : last_company = [u \in {TenantUser} |-> c]
    /\ sessions = {TenantUser}
    /\ companies = Companies
    /\ is_active = [c \in Companies |-> TRUE]
    /\ documents = << >>
    /\ authCall = NoCall /\ outcome = "none"
    /\ lastPrimarySave = "none" /\ saving = << >>
    /\ requests = << >> /\ now = 0 /\ signalsConnected = FALSE /\ lastInst = NoInstance
    /\ approving = << >> /\ deleting = << >>

NextTenant ==
    \/ \E v \in AdminViews, installed \in BOOLEAN : AdminViewRequest(TenantUser, v, installed)
    \/ \E path \in TenantPaths : CallProcessRequest(TenantUser, path)
    \/ \E c \in Companies : switch_company(TenantUser, c)
    \/ \E c \in Companies : Company_delete(c)

SpecTenant == InitTenant /\ [][NextTenant]_vars

(***************************************************************************)
(* Company pages of the super owner panel (core/super_owner_views.py:      *)
(* company_stats_api, company_detail, company_toggle_status)               *)
(***************************************************************************)
\* the response of a company page, and the is_active flags it leaves
CompanyRespond(fn, actor, company, result, flags) ==
    /\ is_active' = flags
    /\ outcome' = result
    /\ authCall' = [NoCall EXCEPT !.fn = fn, !.user = actor, !.company = company]
    /\ UNCHANGED <<roles, perms, memberships, last_company, documents, sessions, deleting,
                   ownerVars, requests, now, users, profiles, companies, signalsConnected,
                   lastInst, approving>>

company_stats_api(actor, company) ==
    CompanyRespond("company_stats_api", actor, company,
                   IF ~is_super_owner(actor) THEN "denied"
                   ELSE IF ~can_manage_company(RowOf(owners, actor), company)
                        THEN "Permission denied"
                   ELSE "ok",
                   is_active)

company_detail(actor, company) ==
    CompanyRespond("company_detail", actor, company,
                   IF ~is_super_owner(actor) THEN "denied" ELSE "ok",
                   is_active)

company_toggle_status(actor, company, method) ==
    CompanyRespond("company_toggle_status", actor, company,
                   IF ~is_super_owner(actor) THEN "denied"
                   ELSE IF method = "POST" THEN "ok" ELSE "redirect",
                   IF is_super_owner(actor) /\ method = "POST"
                   THEN [is_active EXCEPT ![company] = ~is_active[company]]
                   ELSE is_active)

\* the users who ask for the company pages: a SuperOwner and a company user
PanelUsers == {"so1", "u1"}

InitPanel ==
    /\ \E caps \in ScopeCapChoices, allowed \in SUBSET Companies :
          owners = {ScopeRow("so1", caps, allowed)}
    /\ users = PanelUsers
    /\ profiles = {Profile(u, TRUE) : u \in PanelUsers}
    /\ sessions = PanelUsers
    /\ companies = Companies
    /\ is_active \in [Companies -> BOOLEAN]
    /\ last_company = [u \in PanelUsers |-> None]
    /\ documents = << >>
    /\ roles = {} /\ perms = {} /\ memberships = {} /\ authCall = NoCall
    /\ lastPrimarySave = "none" /\ saving = << >>
    /\ requests = << >> /\ now = 0 /\ signalsConnected = FALSE
    /\ outcome = "none" /\ lastInst = NoInstance
    /\ approving = << >> /\ deleting = << >>

NextPanel ==
    \/ \E actor \in PanelUsers, c \in Companies : company_stats_api(actor, c)
    \/ \E actor \in PanelUsers, c \in Companies : company_detail(actor, c)
    \/ \E actor \in PanelUsers, c \in Companies, method \in {"GET", "POST"} :
          company_toggle_status(actor, c, method)

SpecPanel == InitPanel /\ [][NextPanel]_vars

(***************************************************************************)
(* Document review (core/models.py: DocumentUpload; core/views.py:         *)
(* document_review)                                                        *)
(***************************************************************************)
DocIds == {"d1", "d2"}

\* a DocumentUpload row as uploaded for a request
NewDocument(q) ==
    [activation_request |-> q, status |-> "pending", reviewed_by |-> None,
     reviewed_at |-> -1, review_notes |-> ""]

\* the rows a document method works on
DocDB == [documents |-> documents, requests |-> requests]

\* the assignments and the save() shared by the three review methods
review(db, d, status, reviewer_user, notes) ==
    [db EXCEPT !.documents[d] = [@ EXCEPT !.status = status,
                                          !.reviewed_by = reviewer_user,
                                          !.reviewed_at = now,
                                          !.review_notes = notes]]

\* mutant: approving the last open document approves the request
DocumentUpload_approve_and_request(db, d, reviewer_user, notes) ==
    LET r == review(db, d, "approved", reviewer_user, notes)
        q == db.documents[d].activation_request
    IN  IF \A x \in DOMAIN r.documents :
              r.documents[x].activation_request = q => r.documents[x].status = "approved"
        THEN [r EXCEPT !.requests[q].status = "approved"]
        ELSE r

\* DocumentUpload.approve
DocumentUpload_approve(db, d, reviewer_user, notes) ==
    review(db, d, "approved", reviewer_user, notes)

\* DocumentUpload.reject
DocumentUpload_reject(db, d, reviewer_user, notes) ==
    review(db, d, "rejected", reviewer_user, notes)

\* DocumentUpload.require_revision
DocumentUpload_require_revision(db, d, reviewer_user, notes) ==
    review(db, d, "requires_revision", reviewer_user, notes)

DocumentActions == {"approve", "reject", "require_revision", "other"}

\* views.document_review
document_review(actor, d, method, action, notes) ==
    LET db == IF ~is_super_owner(actor) \/ method # "POST" THEN DocDB
              ELSE CASE action = "approve" -> DocumentUpload_approve(DocDB, d, actor, notes)
                     [] action = "reject" -> DocumentUpload_reject(DocDB, d, actor, notes)
                     [] action = "require_revision" ->
                            DocumentUpload_require_revision(DocDB, d, actor, notes)
                     [] OTHER -> DocDB
    IN  /\ documents' = db.documents
        /\ requests' = db.requests
        /\ outcome' = IF ~is_super_owner(actor) THEN "denied"
                      ELSE IF method = "POST" THEN "redirect" ELSE "render"
        /\ authCall' = [NoCall EXCEPT !.fn = "document_review", !.user = actor,
                            !.resource = d, !.action = action, !.path = <<method, notes>>]
        /\ UNCHANGED <<roles, perms, memberships, last_company, is_active, sessions, deleting,
                       ownerVars, now, users, profiles, companies, signalsConnected,
                       lastInst, approving>>

\* the users who open the review page: the primary owner and a company user
DocReviewers == {"so1", "u1"}

InitDoc ==
    /\ \E s \in STATUS_CHOICES :
          requests = [q \in ReqIds |-> [NewRequest("company_registration", "alice", "Acme Ltd")
                                            EXCEPT !.status = s]]
    /\ documents = [d \in DocIds |-> NewDocument("q1")]
    /\ now = 0
    /\ owners = {r \in ReviewerRows : r.user = "so1"}
    /\ users = DocReviewers
    /\ profiles = {Profile(u, TRUE) : u \in DocReviewers}
    /\ sessions = DocReviewers
    /\ last_company = [u \in DocReviewers |-> None]
    /\ is_active = << >>
    /\ companies = {}
    /\ roles = {} /\ perms = {} /\ memberships = {} /\ authCall = NoCall
    /\ lastPrimarySave = "so1" /\ saving = << >>
    /\ signalsConnected = FALSE /\ outcome = "none" /\ lastInst = NoInstance
    /\ approving = << >> /\ deleting = << >>

NextDoc ==
    \/ \E actor \in DocReviewers, d \in DocIds, action \in DocumentActions,
          notes \in ReasonChoices :
          document_review(actor, d, "POST", action, notes)
    \/ \E actor \in DocReviewers, d \in DocIds : document_review(actor, d, "GET", None, "")
    \/ Tick

SpecDoc == InitDoc /\ [][NextDoc]_vars

(***************************************************************************)
(* Logging in (core/views.py: login_view, logout_view, company_register;   *)
(* core/forms.py: CompanyRegistrationForm)                                 *)
(***************************************************************************)
\* a handler that works on no activation request
Begin == Ctx(DB, NoInstance, "none")

\* UserProfile.objects.get_or_create(user=user): is_account_active takes the
\* default of the field, False
UserProfile_get_or_create_default(c, user) ==
    IF ~Ok(c) THEN c
    ELSE IF HasProfile(c.db, user) THEN c
    ELSE [c EXCEPT !.db.profiles = @ \cup {Profile(user, FALSE)}]

\* profile.is_account_active of the user's row
is_account_active(rows, user) == \E p \in rows : p.user = user /\ p.is_account_active

\* the membership an invitation token names
NoToken == "no token"

InvitedUser == "u2"

TokenMembership(rows, token) ==
    {m \in rows : m.user = InvitedUser /\ m.company = token /\ m.status = "invited"}

\* login_view, the pending invitation of the session: membership.user = user,
\* status = 'active', save(); (user, company) is unique
accept_pending_invitation(c, user, token) ==
    IF token = NoToken \/ TokenMembership(c.db.memberships, token) = {} THEN c
    ELSE LET m == CHOOSE x \in TokenMembership(c.db.memberships, token) : TRUE
         IN  IF \E x \in c.db.memberships : x.user = user /\ x.company = m.company
             THEN Raise(c, "IntegrityError")
             ELSE [c EXCEPT !.db.memberships =
                       (@ \ {m}) \cup {[m EXCEPT !.user = user, !.status = "active"]}]

\* what the login handlers leave alone
LoginUntouched ==
    UNCHANGED <<documents, deleting, ownerVars, requests, now, signalsConnected, lastInst,
                approving>>

\* views.login_view; a response with status 500 does not store the session
login_view(user, password_ok, token) ==
    LET valid == user \notin sessions /\ user \in users /\ password_ok
        c1 == IF valid THEN UserProfile_get_or_create_default(Begin, user) ELSE Begin
        admitted == valid /\ (is_account_active(c1.db.profiles, user) \/ is_super_owner(user))
        c2 == IF admitted THEN accept_pending_invitation(c1, user, token) ELSE c1
    IN  /\ profiles' = c2.db.profiles
        /\ memberships' = c2.db.memberships
        /\ sessions' = IF admitted /\ Ok(c2) THEN sessions \cup {user} ELSE sessions
        /\ outcome' = IF user \in sessions THEN "redirect"
                      ELSE IF ~admitted THEN "render"
                      ELSE IF Ok(c2) THEN "redirect" ELSE c2.err
        /\ authCall' = [NoCall EXCEPT !.fn = "login_view", !.user = user]
        /\ UNCHANGED <<roles, perms, users, companies, is_active, last_company>>
        /\ LoginUntouched

\* views.logout_view
logout_view(user) ==
    /\ sessions' = sessions \ {user}
    /\ outcome' = "redirect"
    /\ authCall' = [NoCall EXCEPT !.fn = "logout_view", !.user = user]
    /\ UNCHANGED <<roles, perms, memberships, users, profiles, companies, is_active,
                   last_company>>
    /\ LoginUntouched

TeamMemberFlags == [is_admin |-> FALSE, is_supervisor |-> FALSE, is_team_member |-> TRUE]

\* CompanyRegistrationForm._create_default_roles
forms_create_default_roles(c, company, admin_user) ==
    LET r1 == Role_create(c, company, "Company Admin", AdminFlags)
        r2 == Role_create(r1, company, "Supervisor/Executive", SupervisorFlags)
        r3 == Role_create(r2, company, "Employee", EmployeeFlags)
        r4 == Role_create(r3, company, "Team Member", TeamMemberFlags)
        p1 == bulk_create(r4, {Perm(RoleId(company, "Company Admin"), r, a) :
                                  r \in RESOURCE_CHOICES, a \in ACTION_CHOICES})
        p2 == bulk_create(p1, {Perm(RoleId(company, "Supervisor/Executive"), r, a) :
                                  r \in RESOURCE_CHOICES, a \in {"view", "export"}})
        p3 == bulk_create(p2, {Perm(RoleId(company, "Employee"), r, a) :
                                  r \in {"projects", "expenses", "contractors"},
                                  a \in {"view", "create", "edit"}})
        p4 == bulk_create(p3, {Perm(RoleId(company, "Team Member"), r, a) :
                                  r \in {"projects", "expenses", "contractors", "reports"},
                                  a \in {"view", "create", "edit", "export"}})
    IN  CompanyMembership_create(p4, admin_user, company, RoleId(company, "Company Admin"))

\* CompanyRegistrationForm.is_valid: clean_admin_email and clean_name
CompanyRegistrationForm_is_valid(name, admin_email) ==
    admin_email \notin users /\ slugify(name) \notin companies

\* CompanyRegistrationForm.save
CompanyRegistrationForm_save(c, name, admin_email) ==
    forms_create_default_roles(
        UserProfile_get_or_create_default(
            create_user(Company_create(c, slugify(name)), admin_email), admin_email),
        slugify(name), admin_email)

\* views.company_register
company_register(method, name, admin_email) ==
    LET valid == method = "POST" /\ CompanyRegistrationForm_is_valid(name, admin_email)
        c == IF valid THEN atomic(Begin, CompanyRegistrationForm_save(Begin, name, admin_email))
             ELSE Begin
        done == valid /\ Ok(c)
    IN  /\ companies' = c.db.companies
        /\ users' = c.db.users
        /\ profiles' = c.db.profiles
        /\ roles' = c.db.roles
        /\ perms' = c.db.perms
        /\ memberships' = c.db.memberships
        /\ is_active' = IF done THEN (slugify(name) :> TRUE) @@ is_active ELSE is_active
        /\ last_company' = IF done THEN [last_company EXCEPT ![admin_email] = slugify(name)]
                           ELSE last_company
        /\ sessions' = IF done THEN sessions \cup {admin_email} ELSE sessions
        /\ outcome' = IF done THEN "redirect" ELSE "render"
        /\ authCall' = [NoCall EXCEPT !.fn = "company_register", !.user = admin_email,
                            !.company = slugify(name)]
        /\ LoginUntouched

\* the people who log in: a company user, a super owner, and someone who
\* registers a company
LoginUsers == {"u1", "so1", "carol"}

RegisterEmails == {"carol", "u1"}

InitLogin ==
    /\ users = {"u1", "so1", InvitedUser}
    /\ \E p \in SUBSET {Profile("u1", FALSE), Profile("u1", TRUE)} :
          /\ Cardinality(p) <= 1
          /\ profiles = p \cup {Profile("so1", FALSE)}
    /\ owners = {ScopeRow("so1", {}, {})}
    /\ companies = Companies
    /\ is_active = [c \in Companies |-> TRUE]
    /\ roles = {MkRole(RoleId("acme", "Employee"), "acme", EmployeeFlags)}
    /\ perms = {}
    /\ \E inv \in SUBSET {Membership(InvitedUser, "acme", RoleId("acme", "Employee"), "invited")},
          own \in SUBSET {Membership("u1", "acme", RoleId("acme", "Employee"), "active")} :
          memberships = inv \cup own
    /\ sessions = {}
    /\ last_company = [u \in LoginUsers \cup {InvitedUser} |-> None]
    /\ documents = << >>
    /\ signalsConnected \in BOOLEAN
    /\ authCall = NoCall
    /\ lastPrimarySave = "none" /\ saving = << >>
    /\ requests = << >> /\ now = 0
    /\ outcome = "none" /\ lastInst = NoInstance
    /\ approving = << >> /\ deleting = << >>

NextLogin ==
    \/ \E user \in LoginUsers, password_ok \in BOOLEAN, token \in {NoToken, "acme"} :
          login_view(user, password_ok, token)
    \/ \E user \in LoginUsers : logout_view(user)
    \/ \E method \in {"GET", "POST"}, name \in CompanyNameChoices, email \in RegisterEmails :
          company_register(method, name, email)

SpecLogin == InitLogin /\ [][NextLogin]_vars

(***************************************************************************)
(* Claims about the authorization engine (checked under SpecAuth)          *)
(***************************************************************************)
\* the role owns a Permission row with exactly this resource and action
OwnsTuple(role, resource, action) ==
    Perm(role, resource, action) \in perms

\* C1: user_has_permission(U, C, R, A) returns true iff U has an active membership
\* in C whose role is non-null and owns a Permission row with exactly (R, A); in
\* every other case it returns false, and it never raises.
ClaimC1_PermissionIffActiveRoleOwnsTuple ==
    authCall.fn = "user_has_permission" =>
        /\ ~authCall.result.raised
        /\ authCall.result.value <=>
              \E m \in memberships :
                  /\ m.user = authCall.user
                  /\ m.company = authCall.company
                  /\ m.status = "active"
                  /\ m.role # NoRole
                  /\ OwnsTuple(m.role, authCall.resource, authCall.action)

\* Scenario A: a role holding only (projects, create) grants (projects, create)
WitnessC1_ScenarioAGranted ==
    /\ authCall.fn = "user_has_permission"
    /\ authCall.user = "u1" /\ authCall.company = "acme"
    /\ authCall.resource = "projects" /\ authCall.action = "create"
    /\ Membership("u1", "acme", AcmeRole, "active") \in memberships
    /\ {p \in perms : p.role = AcmeRole} = {Perm(AcmeRole, "projects", "create")}
    /\ authCall.result.value

\* C2 (as claimed): for a membership whose role is null or whose status is not
\* active, every entry point (user_has_permission, get_user_permissions,
\* CompanyMembership.has_permission) denies every (resource, action).
ClaimC2_LeastPrivilegeEveryEntryPoint ==
    /\ authCall.fn = "CompanyMembership.has_permission" =>
          ((authCall.membership.role = NoRole \/ authCall.membership.status # "active")
              => ~authCall.result.value)
    /\ authCall.fn \in {"user_has_permission", "get_user_permissions"} =>
          ((\A m \in memberships :
                (m.user = authCall.user /\ m.company = authCall.company)
                    => (m.role = NoRole \/ m.status # "active"))
              => (~authCall.result.value /\ authCall.result.granted = {}))

\* C3: an admin role grants nothing it does not own as a Permission row, and the
\* is_admin / is_supervisor / is_team_member flags never change has_permission:
\* the method's result is decided by the Permission rows alone.
ClaimC3_NoImplicitAdminEscalation ==
    /\ (authCall.fn = "CompanyMembership.has_permission" /\ authCall.membership.role # NoRole)
          => (authCall.result.value <=>
                OwnsTuple(authCall.membership.role, authCall.resource, authCall.action))
    /\ authCall.fn = "user_has_permission" =>
          \A m \in memberships :
              ( /\ m.user = authCall.user /\ m.company = authCall.company
                /\ m.status = "active" /\ m.role # NoRole
                /\ ~OwnsTuple(m.role, authCall.resource, authCall.action) )
                  => ~authCall.result.value
    /\ authCall.fn = "process_view" =>
          \A e \in PERMISSION_MAP :
              ( /\ startswith(authCall.path, e.pattern)
                /\ authCall.membership.role # NoRole
                /\ ~OwnsTuple(authCall.membership.role, e.resource, e.action) )
                  => ~authCall.result.value

\* an admin role that lacks (expenses, create) is asked for it and denies it
WitnessC3_AdminRoleDeniedMissingTuple ==
    /\ authCall.fn = "user_has_permission"
    /\ authCall.user = "u1" /\ authCall.company = "acme"
    /\ authCall.resource = "expenses" /\ authCall.action = "create"
    /\ Membership("u1", "acme", AcmeRole, "active") \in memberships
    /\ RoleRow(AcmeRole).is_admin
    /\ Perm(AcmeRole, "projects", "create") \in perms
    /\ ~authCall.result.value

(***************************************************************************)
(* Claims about the SuperOwner overlay                                     *)
(***************************************************************************)
PrimaryRows == {r \in owners : r.is_primary_owner}

\* C8: after any sequence of SuperOwner creations and saves at most one stored row
\* has is_primary_owner = true, and it is the row most recently saved with the flag.
ClaimC8_SingletonPrimaryOwner ==
    /\ Cardinality(PrimaryRows) <= 1
    /\ \A r \in PrimaryRows : r.user = lastPrimarySave

\* so1 was primary, then so2 was saved with the flag: so1 is demoted, so2 is primary
WitnessC8_SecondPrimaryReplacesFirst ==
    /\ HasRow(owners, "so1") /\ HasRow(owners, "so2")
    /\ ~RowOf(owners, "so1").is_primary_owner
    /\ RowOf(owners, "so1").delegation_level = "full"
    /\ RowOf(owners, "so1").caps = CAPABILITY_FLAGS
    /\ RowOf(owners, "so2").is_primary_owner
    /\ lastPrimarySave = "so2"

\* C9: every stored SuperOwner with is_primary_owner = true has all seven
\* capability flags and delegation_level = full, whatever was supplied to the save.
ClaimC9_PrimaryOwnerHasAllCapabilities ==
    \A r \in owners :
        r.is_primary_owner =>
            (r.caps = CAPABILITY_FLAGS /\ r.delegation_level = "full")

\* a primary owner row is stored, next to a delegate that holds one capability
WitnessC9_PrimaryOwnerStored ==
    \E r \in owners, d \in owners :
        /\ r.is_primary_owner /\ r.user = lastPrimarySave
        /\ r.caps = CAPABILITY_FLAGS
        /\ ~d.is_primary_owner /\ d.caps = {"can_view_system_analytics"}

\* C10 (as claimed): two concurrent SuperOwner.save calls that both carry
\* is_primary_owner = true never leave, or let another request observe, two rows
\* with is_primary_owner = true.
ClaimC10_ConcurrentSavesKeepSingleton ==
    Cardinality(PrimaryRows) <= 1

(***************************************************************************)
(* Claims about the activation workflow (checked under SpecReq)            *)
(***************************************************************************)
\* the accounts that approvals created
CreatedUsers == users \ (Reviewers \cup {"so3"})

CreatedCompanies == companies \ {TargetCompany}

TerminalStatuses == {"approved", "rejected", "expired"}

AccountTablesUnchanged ==
    UNCHANGED <<users, profiles, companies, roles, perms, memberships>>

\* C4: approved, rejected and expired are terminal: once the stored status of
\* a request is one of the three, no operation changes its status again.
\* (Violated: process_registration_request calls the RegistrationRequestHandler
\* methods, which assign the status without looking at the current one.)
ClaimC4_TerminalStatusesNeverChange ==
    [][\A q \in ReqIds :
          requests[q].status \in TerminalStatuses =>
              requests'[q].status = requests[q].status]_vars

\* an approval entry point run by a reviewer who passes its gate
ApprovalEntryPoint(actor, q) ==
    \/ \E mail_ok \in BOOLEAN, notes \in ReasonChoices :
          views_activation_request_detail(actor, q, "approve", notes, mail_ok)
    \/ \E mail_ok \in BOOLEAN : approve_activation_request(actor, q, mail_ok)
    \/ \E reason \in ReasonChoices : process_registration_request(actor, q, "approve", reason)

\* C5: on every approval entry point, approving a request whose status is
\* already approved fails with an illegal-transition failure and writes
\* nothing: the request's fields and the account tables are unchanged.
\* (Violated: RegistrationRequestHandler.approve_request has no status check.)
ClaimC5_ApproveIdempotent ==
    [][\A actor \in Reviewers, q \in ReqIds :
          ( /\ can_activate_accounts(actor)
            /\ requests[q].status = "approved"
            /\ ApprovalEntryPoint(actor, q) )
          => ( /\ outcome' \in IllegalTransitionErrors
               /\ requests'[q] = requests[q]
               /\ AccountTablesUnchanged )]_vars

\* the entry points that call AccountActivationRequest.approve
CallsApprove(actor, q) ==
    \/ \E mail_ok \in BOOLEAN, notes \in ReasonChoices :
          views_activation_request_detail(actor, q, "approve", notes, mail_ok)
    \/ \E reason \in ReasonChoices :
          super_owner_activation_request_detail(actor, q, "approve", reason)
    \/ \E mail_ok \in BOOLEAN : approve_activation_request(actor, q, mail_ok)

\* the entry points that call it outside a transaction
CallsApproveAutocommit(actor, q) ==
    \/ \E reason \in ReasonChoices :
          super_owner_activation_request_detail(actor, q, "approve", reason)
    \/ \E mail_ok \in BOOLEAN : approve_activation_request(actor, q, mail_ok)

\* C6: approve() on a pending request whose expires_at is in the past sets the
\* request's status to expired, raises a validation failure, records no
\* approver and no approval timestamp, and creates no User, Company, Role or
\* Membership.  The instance approve() was called on is expired in every
\* caller; the stored row is expired where the caller runs outside a
\* transaction.
ClaimC6_ExpiryPrecedence ==
    [][\A actor \in Reviewers, q \in ReqIds :
          ( /\ can_activate_accounts(actor)
            /\ requests[q].status = "pending"
            /\ is_expired
            /\ CallsApprove(actor, q) )
          => ( /\ lastInst'.status = "expired"
               /\ outcome' = RequestHasExpired
               /\ lastInst'.approved_by = None /\ lastInst'.approved_at = -1
               /\ requests'[q].approved_by = None /\ requests'[q].approved_at = -1
               /\ requests'[q].status # "approved"
               /\ (CallsApproveAutocommit(actor, q) => requests'[q].status = "expired")
               /\ AccountTablesUnchanged )]_vars

\* C6 witness: an approval attempt after expires_at has ended with the
\* validation failure and the row is stored as expired
WitnessC6_ExpiredOnApprove ==
    /\ is_expired
    /\ outcome = RequestHasExpired
    /\ lastInst.status = "expired"
    /\ requests["q1"].status = "expired"
    /\ requests["q1"].approved_by = None

MethodStep(fn, q) ==
    authCall'.fn = fn /\ authCall'.path = <<q>> /\ now' = now

\* a method called outside its legal set of statuses raises its message and
\* leaves the row and the instance alone; called inside it does not raise it
GuardHolds(fn, legal, q, message) ==
    MethodStep(fn, q) =>
        IF requests[q].status \notin legal
        THEN outcome' = message /\ requests'[q] = requests[q] /\ lastInst' = requests[q]
        ELSE outcome' # message

\* C13: mark_under_review is legal only from pending, require_documents only
\* from pending or under_review, reject only from pending, under_review or
\* documents_required, approve only from pending; called outside its legal
\* set a method raises a validation failure and leaves status, approved_by,
\* approved_at and rejection_reason unchanged.
ClaimC13_TransitionGuards ==
    [][\A q \in ReqIds :
          /\ GuardHolds("approve", {"pending"}, q, OnlyPendingCanBeApproved)
          /\ GuardHolds("reject", {"pending", "under_review", "documents_required"}, q,
                        OnlyPendingOrReviewCanBeRejected)
          /\ GuardHolds("mark_under_review", {"pending"}, q, OnlyPendingCanBeMarked)
          /\ GuardHolds("require_documents", {"pending", "under_review"}, q,
                        OnlyPendingOrReviewCanRequire)]_vars

\* C13 witness: reject has been refused on an approved request, which kept
\* its approver
WitnessC13_RejectRefusedOnApproved ==
    /\ requests["q1"].status = "approved"
    /\ requests["q1"].approved_by \in Reviewers
    /\ authCall.fn = "reject"
    /\ outcome = OnlyPendingOrReviewCanBeRejected
    /\ lastInst = requests["q1"]

\* the admin memberships of user u in the companies created by approvals
AdminMembershipsOf(u) ==
    { m \in memberships :
         /\ m.user = u /\ m.company \in CreatedCompanies /\ m.status = "active"
         /\ m.role # NoRole /\ RoleRow(m.role).is_admin }

\* C14: in every reachable state an approved request has exactly one User and
\* one UserProfile created for it and, for company_registration, exactly one
\* Company with exactly one active admin Membership of that User, whichever
\* operation set the status.  (Violated: bulk_action_requests and
\* super_owner_views.activation_request_detail approve without creating
\* anything.)
ClaimC14_ApprovedRequestHasItsAccounts ==
    \A q \in ReqIds :
        requests[q].status = "approved" =>
            /\ Cardinality(CreatedUsers) = 1
            /\ Cardinality({p \in profiles : p.user \in CreatedUsers}) = 1
            /\ requests[q].request_type = "company_registration" =>
                  /\ Cardinality(CreatedCompanies) = 1
                  /\ \A u \in CreatedUsers : Cardinality(AdminMembershipsOf(u)) = 1

\* an approval of request q has just succeeded
ApprovalSucceeded(q) ==
    /\ requests[q].status # "approved"
    /\ requests'[q].status = "approved"
    /\ outcome' = "ok"

\* the Permission tuples role r owns among rows ps
TuplesOf(r, ps) == { <<p.resource, p.action>> : p \in {x \in ps : x.role = r.id} }

\* company co has the default role set among roles rs and permissions ps
DefaultRoleSet(co, rs, ps) ==
    /\ \E r \in rs :
          /\ r.company = co /\ r.is_admin
          /\ TuplesOf(r, ps) = RESOURCE_CHOICES \X ACTION_CHOICES
    /\ \E r \in rs :
          /\ r.company = co /\ r.is_supervisor
          /\ TuplesOf(r, ps) = RESOURCE_CHOICES \X {"view", "export"}
    /\ \E r \in rs :
          /\ r.company = co /\ ~r.is_admin /\ ~r.is_supervisor
          /\ TuplesOf(r, ps) =
                {"projects", "expenses", "contractors"} \X {"view", "create", "edit"}

\* C15: after a successful approval of a company_registration request through
\* any approval path the new Company has the default role set (Admin with all
\* 42 tuples, Supervisor with view and export on every resource, Employee
\* with view/create/edit on projects, expenses and contractors), so the
\* approved admin user is granted every (resource, action).  (Violated:
\* _create_default_company_setup and approve_activation_request create the
\* admin role alone and no Permission row.)
ClaimC15_DefaultRoleSetAfterApproval ==
    [][\A q \in ReqIds :
          (ApprovalSucceeded(q) /\ requests[q].request_type = "company_registration")
          => \E co \in companies' \ companies :
                /\ DefaultRoleSet(co, roles', perms')
                /\ \E m \in memberships' :
                      /\ m.company = co /\ m.status = "active" /\ m.role # NoRole
                      /\ \A r \in RESOURCE_CHOICES, a \in ACTION_CHOICES :
                            Perm(m.role, r, a) \in perms']_vars

\* C16: approval is all-or-nothing: if a row creation fails during an
\* approval (duplicate company slug, duplicate username), the stored status
\* is afterwards what it was before and no User, UserProfile, Company, Role,
\* Permission or Membership row of the attempt persists, on every approval
\* path.  (Violated: approve_activation_request runs outside a transaction.)
ClaimC16_ApprovalAllOrNothing ==
    [][\A q \in ReqIds :
          ( /\ outcome' = "IntegrityError"
            /\ authCall'.fn \in {"approve", "approve_request"}
            /\ authCall'.path = <<q>>
            /\ now' = now )
          => ( /\ requests'[q].status = requests[q].status
               /\ AccountTablesUnchanged )]_vars

\* C17: expiry is checked on every transition attempt: once expires_at has
\* passed no operation moves the request to under_review, documents_required,
\* approved or rejected; after the attempt its status is unchanged or
\* expired.  (Violated: only approve() looks at is_expired.)
ClaimC17_ExpiryCheckedOnEveryTransition ==
    [][\A q \in ReqIds :
          is_expired => requests'[q].status \in {requests[q].status, "expired"}]_vars

\* the status a transition method moves the request to
TargetStatus(fn) ==
    CASE fn = "approve" -> "approved"
      [] fn = "reject" -> "rejected"
      [] fn = "require_documents" -> "documents_required"

\* C18: notification failure is non-fatal: when the e-mail dispatch fails
\* during an approve, reject or require-documents operation, the state
\* transition still commits; a dispatch failure never rolls it back.
\* (Violated: _process_approval sends its mail with fail_silently=False
\* inside transaction.atomic.)
ClaimC18_NotificationFailureNonFatal ==
    [][\A q \in ReqIds :
          ( /\ outcome' = "SMTPException"
            /\ authCall'.fn \in {"approve", "reject", "require_documents"}
            /\ authCall'.path = <<q>>
            /\ now' = now )
          => requests'[q].status = TargetStatus(authCall'.fn)]_vars

(***************************************************************************)
(* Claims about concurrent approval (checked under SpecApproveConc)        *)
(***************************************************************************)
\* C7: two approve calls on the same pending, unexpired request, interleaved
\* in any order: exactly one succeeds, the other fails with an
\* illegal-transition failure, and exactly one User (for company_registration
\* also exactly one Company with its admin Role and Membership) exists
\* afterwards.  (Violated: both calls read status pending before either
\* writes, and nothing locks the row.)
ClaimC7_ConcurrentApprovalExactlyOne ==
    ( /\ \A p \in ApproveProcs : approving[p].pc = "done"
      /\ requests["q1"].request_type \in {"company_registration", "user_invitation"} )
    => /\ \E w \in ApproveProcs, l \in ApproveProcs :
             /\ w # l
             /\ approving[w].err \in {"none", "SMTPException"}
             /\ approving[l].err \in IllegalTransitionErrors
       /\ Cardinality(CreatedUsers) = 1
       /\ requests["q1"].request_type = "company_registration" =>
             /\ Cardinality(CreatedCompanies) = 1
             /\ Cardinality(roles) = 1
             /\ Cardinality(memberships) = 1

(***************************************************************************)
(* Claims about the SuperOwner company scope (checked under SpecScope)     *)
(***************************************************************************)
\* C11: can_manage_company(S, C) is false when S.can_manage_companies is
\* false; otherwise it is true exactly when S.allowed_companies is empty or
\* contains C; get_manageable_companies(S) returns exactly the companies C
\* for which can_manage_company(S, C) is true.
ClaimC11_CompanyScope ==
    /\ authCall.fn = "can_manage_company" =>
          LET S == RowOf(owners, authCall.user)
          IN  authCall.result.value =
                 ( /\ "can_manage_companies" \in S.caps
                   /\ (S.allowed_companies = {} \/ authCall.company \in S.allowed_companies) )
    /\ authCall.fn = "get_manageable_companies" =>
          LET S == RowOf(owners, authCall.user)
          IN  authCall.result.granted =
                 { C \in Companies : can_manage_company(S, C) }

\* C11 witness: a super owner restricted to acme was asked about beta and refused
WitnessC11_RestrictedOwnerRefused ==
    /\ authCall.fn = "can_manage_company"
    /\ authCall.company = "beta"
    /\ "can_manage_companies" \in RowOf(owners, authCall.user).caps
    /\ RowOf(owners, authCall.user).allowed_companies = {"acme"}
    /\ authCall.result.value = FALSE

(***************************************************************************)
(* Claims about role management                                            *)
(***************************************************************************)
\* the role is referenced by at least one membership with status active
RoleInUse(rid) == \E m \in memberships : m.role = rid /\ m.status = "active"

\* C19: a role_delete request, GET or POST, on a role that at least one active
\* membership references is rejected, and leaves the role rows, the permission
\* rows and every membership's role reference as they were.
ClaimC19_RoleInUseNotDeleted ==
    [][\A rid \in RoleIds :
          (RoleInUse(rid) /\ authCall'.fn = "role_delete" /\ authCall'.path[1] = rid)
              => /\ outcome' \notin {"deleted", "confirm"}
                 /\ UNCHANGED <<roles, perms, memberships>>]_vars

\* C19 witness: an administrator's POST to delete a role in use was refused
WitnessC19_DeleteRefusedRoleInUse ==
    /\ authCall.fn = "role_delete"
    /\ outcome = "Cannot delete role in use"
    /\ Len(authCall.path) = 2 /\ authCall.path[2] = "POST"
    /\ RoleInUse(authCall.path[1])
    /\ \E r \in roles : r.id = authCall.path[1]

\* C20: every company that was set up has at least one role with is_admin,
\* whatever role_create, role_edit and role_delete requests were served, two
\* concurrent role_delete requests included.
ClaimC20_CompanyKeepsAdminRole ==
    \A co \in Companies : admin_role_count(co) >= 1

(***************************************************************************)
(* Claims about the rows a SuperOwner save leaves alone (SpecOwner)        *)
(***************************************************************************)
\* C28: a save of one user's SuperOwner row with is_primary_owner set changes,
\* in every other row that was primary, the is_primary_owner flag only (the
\* delegation level, the capability flags and allowed_companies stay), and
\* changes no other row of another user.
ClaimC28_DemotionChangesOnlyPrimaryFlag ==
    [][owners' # owners =>
          \E u \in OwnerUsers : \A r \in owners : r.user # u =>
              IF /\ r.is_primary_owner
                 /\ HasRow(owners', u) /\ RowOf(owners', u).is_primary_owner
              THEN [r EXCEPT !.is_primary_owner = FALSE] \in owners'
              ELSE r \in owners']_vars

\* C28 witness: a row that was saved as primary owner has been demoted by the
\* save of another primary owner and still holds the full level, the seven
\* capabilities and its own company list
WitnessC28_DemotedOwnerKeepsAccess ==
    \E r \in owners, b \in owners :
        /\ b.user # r.user /\ b.is_primary_owner /\ lastPrimarySave = b.user
        /\ ~r.is_primary_owner /\ r.delegation_level = "full" /\ r.caps = CAPABILITY_FLAGS
        /\ r.allowed_companies # {}

(***************************************************************************)
(* Claims about what a role deletion leaves behind (SpecRole)              *)
(***************************************************************************)
\* a membership without a role passes none of the role checks
NullRoleGrantsNothing ==
    \A m \in memberships : m.role = NoRole =>
        /\ ~is_company_admin(m) /\ ~is_company_supervisor(m)
        /\ \A r \in RESOURCE_CHOICES, a \in ACTION_CHOICES : ~has_permission(m, r, a)

\* C29: a role_delete that deletes a role deletes no membership: every
\* membership that referenced the role (none of them active) is still there
\* with a null role, the role's permission rows are gone, and a membership
\* with a null role is no admin, no supervisor and holds no permission.
ClaimC29_RoleDeleteKeepsMemberships ==
    /\ []NullRoleGrantsNothing
    /\ [][(authCall'.fn = "role_delete" /\ outcome' = "deleted") =>
            LET rid == authCall'.path[1]
            IN  /\ ~\E r \in roles' : r.id = rid
                /\ ~\E p \in perms' : p.role = rid
                /\ Cardinality(memberships') = Cardinality(memberships)
                /\ \A m \in memberships :
                      IF m.role = rid
                      THEN m.status # "active" /\ [m EXCEPT !.role = NoRole] \in memberships'
                      ELSE m \in memberships']_vars

\* C29 witness: the role of the suspended administrator was deleted and the
\* membership is still there, without a role
WitnessC29_MembershipOutlivesRole ==
    /\ authCall.fn = "role_delete" /\ outcome = "deleted"
    /\ authCall.path[1] = RoleId(CurrentCompany, "Company Admin")
    /\ Membership("u1", CurrentCompany, NoRole, "suspended") \in memberships
    /\ ~\E r \in roles : r.id = authCall.path[1]

(***************************************************************************)
(* Claims about the company context of a request (SpecTenant)              *)
(***************************************************************************)
AdminViewNames == {v.fn : v \in AdminViews}

ClaimC24_AdminGateNeedsActiveMembership ==
    (authCall.fn \in AdminViewNames /\ outcome = "pass") =>
        \E m \in ActiveMembershipsOf(authCall.user) : m.company = authCall.company

ClaimC25_ExpiredStoredByReviewView ==
    [][\A actor \in Reviewers, q \in ReqIds, notes \in ReasonChoices, mail_ok \in BOOLEAN :
          ( /\ requests[q].status = "pending" /\ is_expired /\ is_super_owner(actor)
            /\ views_activation_request_detail(actor, q, "approve", notes, mail_ok) )
              => requests'[q].status = "expired"]_vars

\* a request handler run for the actor
HandledFor(actor) ==
    \E q \in ReqIds, reason \in ReasonChoices, mail_ok \in BOOLEAN :
        \/ \E action \in {"approve", "reject", "require_documents", "mark_review"} :
              views_activation_request_detail(actor, q, action, reason, mail_ok)
        \/ \E action \in {"approve", "reject"} :
              super_owner_activation_request_detail(actor, q, action, reason)
        \/ approve_activation_request(actor, q, mail_ok)
        \/ reject_activation_request(actor, q, reason, mail_ok)
        \/ \E action \in {"approve", "reject", "review"} : bulk_action_requests(actor, q, action)
        \/ \E action \in {"approve", "reject", "request_docs"} :
              \/ process_registration_request(actor, q, action, reason)
              \/ bulk_process_requests(actor, q, action, reason)

\* C26: no request handler changes the status of an activation request for an
\* actor who is not a SuperOwner with can_activate_accounts.
ClaimC26_OnlyActivatorsChangeStatus ==
    [][\A actor \in Reviewers :
          (~can_activate_accounts(actor) /\ HandledFor(actor))
              => \A q \in ReqIds : requests'[q].status = requests[q].status]_vars

(***************************************************************************)
(* Claims about the company pages of the super owner panel (SpecPanel)     *)
(***************************************************************************)
CompanyPageNames == {"company_stats_api", "company_detail", "company_toggle_status"}

\* the user is a SuperOwner whose scope holds the company
MayManage(user, company) ==
    HasRow(owners, user) /\ can_manage_company(RowOf(owners, user), company)

\* C27: a company's statistics or detail are served, and its is_active flag is
\* changed, only for a SuperOwner S with can_manage_company(S, company); a
\* SuperOwner without can_manage_companies, or with allowed_companies that do
\* not hold the company, never changes its is_active flag.
ClaimC27_CompanyPagesScoped ==
    [][ /\ (authCall'.fn \in CompanyPageNames /\ outcome' = "ok")
              => MayManage(authCall'.user, authCall'.company)
        /\ \A c \in Companies :
              is_active'[c] # is_active[c] => MayManage(authCall'.user, c) ]_vars

(***************************************************************************)
(* Claims about document review (checked under SpecDoc)                    *)
(***************************************************************************)
ReviewActions == {"approve", "reject", "require_revision"}

\* the status each review action stores
ReviewStatus(action) ==
    CASE action = "approve" -> "approved"
      [] action = "reject" -> "rejected"
      [] action = "require_revision" -> "requires_revision"

ClaimC30_ActivationGate ==
    [][\A u \in sessions' \ sessions :
          is_account_active(profiles', u) \/ HasRow(owners', u)]_vars

====
